---- MODULE Spec2Model ----
(***************************************************************************)
(* Verification model of collectd/go-collectd: the binary network protocol *)
(* encoder (network.Buffer), the parser (network.Parse), the crypto        *)
(* envelopes and the UDP server.                                           *)
(*                                                                         *)
(* Bytes are integers 0..255, byte strings are sequences of bytes.  A Go   *)
(* string is the sequence of its bytes.  64-bit quantities are never       *)
(* computed as one integer: a cdtime is the pair of its upper 34 bits (s)  *)
(* and its lower 30 bits (frac), a time.Time and a time.Duration are the   *)
(* pair (s, ns) of whole seconds and nanoseconds below one second.         *)
(***************************************************************************)
EXTENDS Integers, Sequences, FiniteSets, TLC

----------------------------------------------------------------------------
(* Program constants                                                        *)

dsTypeCounter == 0
dsTypeGauge == 1
dsTypeDerive == 2
dsTypeAbsolute == 3

typeHost == 0
typeTime == 1
typePlugin == 2
typePluginInstance == 3
typeType == 4
typeTypeInstance == 5
typeValues == 6
typeInterval == 7
typeTimeHR == 8
typeIntervalHR == 9
typeSignSHA256 == 512
typeEncryptAES256 == 528

DefaultBufferSize == 1452

----------------------------------------------------------------------------
(* Byte helpers (encoding/binary)                                           *)

Pow2(n) == 2 ^ n

\* binary.Write(.., BigEndian, uint16(n)): the conversion to uint16 wraps.
PutUint16(n) == << (n % 65536) \div 256, n % 256 >>

\* binary.BigEndian.Uint16
Uint16(b) == b[1] * 256 + b[2]

Reverse(s) == [i \in 1..Len(s) |-> s[Len(s) + 1 - i]]

Repeat(x, n) == [i \in 1..n |-> x]

\* The i-th (1 = most significant) of the 4 bytes of 0 <= n < 2^31.
Byte4(n, i) == (n \div Pow2(8 * (4 - i))) % 256

\* Big-endian two's complement int64 of a number that fits 32 bits.
PutInt64(v) ==
  IF v >= 0
  THEN <<0, 0, 0, 0>> \o [i \in 1..4 |-> Byte4(v, i)]
  ELSE <<255, 255, 255, 255>> \o [i \in 1..4 |-> 255 - Byte4(-v - 1, i)]

\* binary.Read(.., BigEndian, &int64) of 8 bytes; numbers outside 32 bits
\* are outside the modelled domain and are mapped to their low 31 bits.
GetLow31(b) == (b[5] % 128) * 16777216 + b[6] * 65536 + b[7] * 256 + b[8]
ReadInt64(b) ==
  IF b[1] >= 128
  THEN -(GetLow31([i \in 1..8 |-> 255 - b[i]])) - 1
  ELSE GetLow31(b)

----------------------------------------------------------------------------
(* cdtime: 2^-30 second fixed point                                         *)

NanosPerSecond == 1000000000

\* floor(r * 2^k / 10^9) for r < 10^9, one bit per step: the value of
\* (ns << 30) / 1000000000 in 64-bit arithmetic.
RECURSIVE ShlDiv(_, _, _)
ShlDiv(r, k, q) ==
  IF k = 0 THEN q
  ELSE LET r2 == 2 * r
       IN IF r2 >= NanosPerSecond
          THEN ShlDiv(r2 - NanosPerSecond, k - 1, 2 * q + 1)
          ELSE ShlDiv(r2, k - 1, 2 * q)

\* api.cdtimeNano / cdtime.newNano: seconds and sub-second part are
\* converted separately; the result is (s << 30) | ((ns << 30) / 10^9).
cdtimeNano(t) == [s |-> t.s, frac |-> ShlDiv(t.ns, 30, 0)]

\* cdtime.newNano: s = ns / 10^9 and ns = ns % 10^9 are already the two
\* fields of t; the result is (s << 30) | ((ns << 30) / 10^9), truncated.
newNano(t) == [s |-> t.s, frac |-> ShlDiv(t.ns, 30, 0)]

\* (frac * 1000000000) >> 30 = floor(frac * 5^9 / 2^21), computed in three
\* 7-bit limbs of the low 21 bits of frac so that no product exceeds 31 bits.
FracToNanos(frac) ==
  LET K == 1953125
      a == frac \div 2097152
      b == frac % 2097152
      c == b \div 16384
      d == (b \div 128) % 128
      e == b % 128
  IN a * K + ((c * K + ((d * K + ((e * K) \div 128)) \div 128)) \div 128)

\* cdtime.Time.Time(): time.Unix(t >> 30, ((t & 0x3fffffff) * 10^9) >> 30)
cdtimeTime(c) == [s |-> c.s, ns |-> FracToNanos(c.frac)]

\* cdtime.Time.Duration(): Duration(10^9 * s + ns)
cdtimeDuration(c) == [s |-> c.s, ns |-> FracToNanos(c.frac)]

\* The 8 big-endian bytes of the cdtime (s << 30) | frac, s < 2^31.
PutCdtime(c) ==
  << c.s \div 67108864, (c.s \div 262144) % 256, (c.s \div 1024) % 256,
     (c.s \div 4) % 256, (c.s % 4) * 64 + (c.frac \div 16777216),
     (c.frac \div 65536) % 256, (c.frac \div 256) % 256, c.frac % 256 >>

\* The cdtime of 8 big-endian bytes (parseInt followed by cdtime.Time(i)).
GetCdtime(b) ==
  [s |-> b[1] * 67108864 + b[2] * 262144 + b[3] * 1024 + b[4] * 4
         + (b[5] \div 64),
   frac |-> (b[5] % 64) * 16777216 + b[6] * 65536 + b[7] * 256 + b[8]]

\* The uint64 of 8 big-endian bytes as whole seconds (typeTime,
\* typeInterval); its low 31 bits.
GetSeconds(b) == [s |-> GetLow31(b), ns |-> 0]

----------------------------------------------------------------------------
(* Data model (api.Identifier, api.ValueList, api.Value)                    *)

\* time.Time{}: the zero time, different from every time.Unix(s, ns), s >= 0.
ZeroTime == [s |-> -1, ns |-> 0]
ZeroDuration == [s |-> 0, ns |-> 0]

\* api.ValueList{} without its Values: the shadow state of a Buffer and the
\* state of Parse.
ZeroState ==
  [Host |-> <<>>, Plugin |-> <<>>, PluginInstance |-> <<>>, Type |-> <<>>,
   TypeInstance |-> <<>>, Time |-> ZeroTime, Interval |-> ZeroDuration]

\* A value is [t |-> "gauge", v |-> the 8 bytes of the float64, most
\* significant first], [t |-> "derive", v |-> int64], [t |-> "counter",
\* v |-> uint64] or [t |-> "absolute", v |-> uint64].
Gauge(bits) == [t |-> "gauge", v |-> bits]
Derive(n) == [t |-> "derive", v |-> n]
Counter(n) == [t |-> "counter", v |-> n]
Absolute(n) == [t |-> "absolute", v |-> n]

\* math.IsNaN: exponent all ones, mantissa not zero.
IsNaN(bits) ==
  /\ bits[1] % 128 = 127
  /\ bits[2] >= 240
  /\ \/ bits[2] # 240
     \/ \E i \in 3..8 : bits[i] # 0

\* math.NaN() = 0x7FF8000000000001, 42.0 = 0x4045000000000000
NaNBits == <<127, 248, 0, 0, 0, 0, 0, 1>>
F42Bits == <<64, 69, 0, 0, 0, 0, 0, 0>>

StateOf(vl) ==
  [Host |-> vl.Host, Plugin |-> vl.Plugin,
   PluginInstance |-> vl.PluginInstance, Type |-> vl.Type,
   TypeInstance |-> vl.TypeInstance, Time |-> vl.Time,
   Interval |-> vl.Interval]

\* A value list that carries the values and nothing of the state.
WithValues_Fresh(st, values) ==
  [Host |-> <<>>, Plugin |-> <<>>, PluginInstance |-> <<>>, Type |-> <<>>,
   TypeInstance |-> <<>>, Time |-> ZeroTime, Interval |-> ZeroDuration,
   Values |-> values]

\* vl := state; vl.Values = values: a copy of the state with the values.
WithValues(st, values) ==
  [Host |-> st.Host, Plugin |-> st.Plugin,
   PluginInstance |-> st.PluginInstance, Type |-> st.Type,
   TypeInstance |-> st.TypeInstance, Time |-> st.Time,
   Interval |-> st.Interval, Values |-> values]

----------------------------------------------------------------------------
(* network.Buffer: the encoder.  A buffer value is the record               *)
(* [buf |-> bytes, st |-> shadow state, size |-> budget]; every write       *)
(* function returns the buffer with err in {"nil", "nospace", "panic"}.     *)

Res(b, e) == [buf |-> b.buf, st |-> b.st, size |-> b.size, err |-> e]
Append2(b, bytes) == [b EXCEPT !.buf = b.buf \o bytes]

\* Buffer.Free
Free(b) == IF b.size < Len(b.buf) THEN 0 ELSE b.size - Len(b.buf)

\* Buffer.writeString: type, length, the string's bytes and a NUL.
writeString(b, typ, s) ==
  LET size == 4 + Len(s) + 1
  IN IF size > Free(b)
     THEN Res(b, "nospace")
     ELSE Res(Append2(b, PutUint16(typ) \o PutUint16(size) \o s \o <<0>>),
              "nil")

\* Buffer.writeInt, for a 64-bit number given as its 8 bytes.
writeInt(b, typ, n8) ==
  LET size == 12
  IN IF size > Free(b)
     THEN Res(b, "nospace")
     ELSE Res(Append2(b, PutUint16(typ) \o PutUint16(size) \o n8), "nil")

\* Runs the next step of a function that returns on the first error.
Then(r, Op(_)) == IF r.err # "nil" THEN r ELSE Op(r)

\* One field of Buffer.writeIdentifier: written when it differs from the
\* shadow state, which is updated after a successful write.
writeField(b, typ, field, s) ==
  IF s # b.st[field]
  THEN LET r == writeString(b, typ, s)
       IN IF r.err # "nil" THEN r
          ELSE [r EXCEPT !.st = [r.st EXCEPT ![field] = s]]
  ELSE Res(b, "nil")

\* Buffer.writeIdentifier
writeIdentifier(b, id) ==
  Then(Then(Then(Then(
    writeField(b, typeHost, "Host", id.Host),
    LAMBDA r : writeField(r, typePlugin, "Plugin", id.Plugin)),
    LAMBDA r : writeField(r, typePluginInstance, "PluginInstance",
                          id.PluginInstance)),
    LAMBDA r : writeField(r, typeType, "Type", id.Type)),
    LAMBDA r : writeField(r, typeTypeInstance, "TypeInstance",
                          id.TypeInstance))

\* Buffer.writeTime: the shadow time is set before the part is written.
writeTime(b, t) ==
  IF b.st.Time = t
  THEN Res(b, "nil")
  ELSE writeInt([b EXCEPT !.st = [b.st EXCEPT !.Time = t]],
                typeTimeHR, PutCdtime(cdtimeNano(t)))

\* Buffer.writeInterval
writeInterval(b, d) ==
  IF b.st.Interval = d
  THEN Res(b, "nil")
  ELSE writeInt([b EXCEPT !.st = [b.st EXCEPT !.Interval = d]],
                typeIntervalHR, PutCdtime(cdtimeNano(d)))

Emitted(v) == v.t \in {"gauge", "derive"}

\* The type tags written by the first loop of writeValues, up to the first
\* value that is neither a Gauge nor a Derive.
TypeTags(values) ==
  LET bad == {i \in 1..Len(values) : ~Emitted(values[i])}
      k == IF bad = {} THEN Len(values)
           ELSE (CHOOSE i \in bad : \A j \in bad : i <= j) - 1
  IN [i \in 1..k |->
        IF values[i].t = "gauge" THEN dsTypeGauge ELSE dsTypeDerive]

\* One value cell: a NaN gauge is the fixed bytes 00 00 00 00 00 00 f8 7f,
\* another gauge is little endian, a derive big endian.
ValueCell(v) ==
  IF v.t = "gauge"
  THEN IF IsNaN(v.v) THEN <<0, 0, 0, 0, 0, 0, 248, 127>> ELSE Reverse(v.v)
  ELSE PutInt64(v.v)

\* The cells written by the second loop of writeValues.
ValueCells(values) ==
  LET cells == [i \in 1..Len(values) |-> ValueCell(values[i])]
  IN [i \in 1..(8 * Len(values)) |->
        cells[((i - 1) \div 8) + 1][((i - 1) % 8) + 1]]

Supported(values) == \A i \in 1..Len(values) : Emitted(values[i])

\* Buffer.writeValues: the header and the count are written first; a value
\* of another type panics in the loop over the type tags.
writeValues(b, values) ==
  LET size == 6 + 9 * Len(values)
      head == PutUint16(typeValues) \o PutUint16(size)
                \o PutUint16(Len(values))
  IN IF size > Free(b)
     THEN Res(b, "nospace")
     ELSE IF Supported(values)
     THEN Res(Append2(b, head \o TypeTags(values) \o ValueCells(values)),
              "nil")
     ELSE Res(Append2(b, head \o TypeTags(values)), "panic")

\* Buffer.writeValueList
writeValueList(b, vl) ==
  Then(Then(Then(
    writeIdentifier(b, vl),
    LAMBDA r : writeTime(r, vl.Time)),
    LAMBDA r : writeInterval(r, vl.Interval)),
    LAMBDA r : writeValues(r, vl.Values))

----------------------------------------------------------------------------
(* network.Parse: the decoder.  The result is [vls |-> the value lists,     *)
(* err |-> "nil" or the error]; err = "panic" is a run-time panic.          *)

\* parseString
parseString(p) ==
  IF p[Len(p)] # 0
  THEN [str |-> <<>>, err |-> "invalid"]
  ELSE [str |-> SubSeq(p, 1, Len(p) - 1), err |-> "nil"]

\* A parseInt that takes a payload of any length, padded or cut to 8 bytes.
parseInt_AnyLength(p) ==
  [i |-> SubSeq(Repeat(0, 8) \o p, Len(p) + 1, Len(p) + 8), err |-> "nil"]

\* parseInt: the 8 bytes of the number.
parseInt(p) ==
  IF Len(p) # 8
  THEN [i |-> <<>>, err |-> "invalid"]
  ELSE [i |-> p, err |-> "nil"]

\* A loop of parseValues that reads an Absolute as it reads a Counter.
parseCells_AbsoluteAsCounter(n, types, data) ==
  LET typ(i) == IF i <= Len(types) THEN types[i] ELSE 0
      cell(i) == SubSeq(data, 8 * i - 7, 8 * i)
      known(i) == typ(i) \in {dsTypeGauge, dsTypeDerive, dsTypeCounter,
                              dsTypeAbsolute}
      bad == {i \in 1..n : ~known(i) \/ Len(data) < 8 * i}
  IN IF bad = {}
     THEN [values |-> [i \in 1..n |->
                         IF typ(i) = dsTypeGauge
                         THEN Gauge(Reverse(cell(i)))
                         ELSE Derive(ReadInt64(cell(i)))],
           err |-> "nil"]
     ELSE LET f == CHOOSE i \in bad : \A j \in bad : i <= j
          IN [values |-> <<>>,
              err |-> IF known(f) THEN "EOF" ELSE "invalid data source"]

\* The loop of parseValues over the type tags: the i-th tag is types[i], or
\* 0 where the read of the tags came short; every cell is the next 8 bytes.
\* The loop returns at the first tag that is unknown or has no cell left.
parseCells(n, types, data) ==
  LET typ(i) == IF i <= Len(types) THEN types[i] ELSE 0
      cell(i) == SubSeq(data, 8 * i - 7, 8 * i)
      known(i) == typ(i) \in {dsTypeGauge, dsTypeDerive, dsTypeCounter}
      bad == {i \in 1..n : ~known(i) \/ Len(data) < 8 * i}
  IN IF bad = {}
     THEN [values |-> [i \in 1..n |->
                         IF typ(i) = dsTypeGauge
                         THEN Gauge(Reverse(cell(i)))
                         ELSE Derive(ReadInt64(cell(i)))],
           err |-> "nil"]
     ELSE LET f == CHOOSE i \in bad : \A j \in bad : i <= j
          IN [values |-> <<>>,
              err |-> IF known(f) THEN "EOF"
                      ELSE IF typ(f) = dsTypeAbsolute THEN "unsupported"
                      ELSE "invalid data source"]

\* A parseValues that does not compare n*9 with the length of the rest.
parseValues_NoLengthCheck(p) ==
  IF Len(p) < 2 THEN [values |-> <<>>, err |-> "EOF"]
  ELSE LET n == Uint16(p)
           rest == SubSeq(p, 3, Len(p))
           nt == IF n < Len(rest) THEN n ELSE Len(rest)
       IN IF n > 0 /\ Len(rest) = 0
          THEN [values |-> <<>>, err |-> "EOF"]
          ELSE parseCells(n, SubSeq(rest, 1, nt),
                          SubSeq(rest, nt + 1, Len(rest)))

\* parseValues: the count n is a uint16 and so is the product n*9.
parseValues(p) ==
  IF Len(p) < 2 THEN [values |-> <<>>, err |-> "EOF"]
  ELSE LET n == Uint16(p)
           rest == SubSeq(p, 3, Len(p))
           nt == IF n < Len(rest) THEN n ELSE Len(rest)
       IN IF (n * 9) % 65536 # Len(rest)
          THEN [values |-> <<>>, err |-> "length mismatch"]
          ELSE IF n > 0 /\ Len(rest) = 0
          THEN [values |-> <<>>, err |-> "EOF"]
          ELSE parseCells(n, SubSeq(rest, 1, nt),
                          SubSeq(rest, nt + 1, Len(rest)))

StringField(partType) ==
  CASE partType = typeHost -> "Host"
    [] partType = typePlugin -> "Plugin"
    [] partType = typePluginInstance -> "PluginInstance"
    [] partType = typeType -> "Type"
    [] OTHER -> "TypeInstance"

\* A switch of Parse whose default branch forgets the state.
parsePart_UnknownResets(partType, payload, st, valueLists) ==
  IF partType \in {typeHost, typePlugin, typePluginInstance,
                   typeType, typeTypeInstance}
  THEN LET r == parseString(payload)
       IN IF r.err # "nil"
          THEN [st |-> st, vls |-> valueLists, err |-> r.err]
          ELSE [st |-> [st EXCEPT ![StringField(partType)] = r.str],
                vls |-> valueLists, err |-> "nil"]
  ELSE IF partType \in {typeInterval, typeIntervalHR, typeTime, typeTimeHR}
  THEN LET r == parseInt(payload)
       IN IF r.err # "nil"
          THEN [st |-> st, vls |-> valueLists, err |-> r.err]
          ELSE [st |->
                  CASE partType = typeInterval ->
                         [st EXCEPT !.Interval = GetSeconds(r.i)]
                    [] partType = typeIntervalHR ->
                         [st EXCEPT !.Interval =
                            cdtimeDuration(GetCdtime(r.i))]
                    [] partType = typeTime ->
                         [st EXCEPT !.Time = GetSeconds(r.i)]
                    [] OTHER ->
                         [st EXCEPT !.Time = cdtimeTime(GetCdtime(r.i))],
                vls |-> valueLists, err |-> "nil"]
  ELSE IF partType = typeValues
  THEN LET r == parseValues(payload)
       IN IF r.err # "nil"
          THEN [st |-> st, vls |-> valueLists, err |-> r.err]
          ELSE [st |-> st,
                vls |-> Append(valueLists, WithValues(st, r.values)),
                err |-> "nil"]
  ELSE [st |-> ZeroState, vls |-> valueLists, err |-> "nil"]

\* The switch of Parse on the type of one part: st is the current value
\* list (state), valueLists the output so far; the result is the new state,
\* the new output and the error the switch returns with.
parsePart(partType, payload, st, valueLists) ==
  IF partType \in {typeHost, typePlugin, typePluginInstance,
                   typeType, typeTypeInstance}
  THEN LET r == parseString(payload)
       IN IF r.err # "nil"
          THEN [st |-> st, vls |-> valueLists, err |-> r.err]
          ELSE [st |-> [st EXCEPT ![StringField(partType)] = r.str],
                vls |-> valueLists, err |-> "nil"]
  ELSE IF partType \in {typeInterval, typeIntervalHR, typeTime, typeTimeHR}
  THEN LET r == parseInt(payload)
       IN IF r.err # "nil"
          THEN [st |-> st, vls |-> valueLists, err |-> r.err]
          ELSE [st |->
                  CASE partType = typeInterval ->
                         [st EXCEPT !.Interval = GetSeconds(r.i)]
                    [] partType = typeIntervalHR ->
                         [st EXCEPT !.Interval =
                            cdtimeDuration(GetCdtime(r.i))]
                    [] partType = typeTime ->
                         [st EXCEPT !.Time = GetSeconds(r.i)]
                    [] OTHER ->
                         [st EXCEPT !.Time = cdtimeTime(GetCdtime(r.i))],
                vls |-> valueLists, err |-> "nil"]
  ELSE IF partType = typeValues
  THEN LET r == parseValues(payload)
       IN IF r.err # "nil"
          THEN [st |-> st, vls |-> valueLists, err |-> r.err]
          ELSE [st |-> st,
                vls |-> Append(valueLists, WithValues(st, r.values)),
                err |-> "nil"]
  ELSE [st |-> st, vls |-> valueLists, err |-> "nil"]

\* The loop of Parse: b is the unread input, st the current value list
\* (state), valueLists the output so far.
RECURSIVE parseLoop(_, _, _)
parseLoop(b, st, valueLists) ==
  IF Len(b) = 0 THEN [vls |-> valueLists, err |-> "nil"]
  ELSE IF Len(b) < 4 THEN [vls |-> valueLists, err |-> "panic"]
  ELSE
    LET partType == Uint16(SubSeq(b, 1, 2))
        partLength == Uint16(SubSeq(b, 3, 4))
    IN IF partLength < 5 \/ partLength - 4 > Len(b) - 4
       THEN [vls |-> valueLists, err |-> "invalid length"]
       ELSE
         LET r == parsePart(partType, SubSeq(b, 5, partLength), st,
                            valueLists)
         IN IF r.err # "nil"
            THEN [vls |-> r.vls, err |-> r.err]
            ELSE parseLoop(SubSeq(b, partLength + 1, Len(b)), r.st, r.vls)

\* Parse
Parse(b) == parseLoop(b, ZeroState, <<>>)

----------------------------------------------------------------------------
(* Crypto envelopes.  The primitives of the Go standard library are         *)
(* modelled as ideal functions: a digest of n bytes is an encoding of its   *)
(* input (lengths, key, message) folded into n bytes, so that two inputs    *)
(* whose encoding fits into n bytes never collide and a change of one byte  *)
(* of a longer input always changes the digest.                             *)

\* The sum of the bytes of s at the positions i, i + n, i + 2n, ...
RECURSIVE SumEvery(_, _, _)
SumEvery(s, i, n) ==
  IF i > Len(s) THEN 0 ELSE s[i] + SumEvery(s, i + n, n)

\* The byte sequence s folded into n bytes.
Fold(s, n) == [i \in 1..n |-> SumEvery(s, i, n) % 256]

\* hmac.New(sha256.New, key); mac.Write(msg); mac.Sum(nil): 32 bytes.
HmacSHA256(key, msg) ==
  Fold(<<Len(key) % 256, Len(msg) % 256>> \o key \o msg, 32)

\* sha1.Sum(msg): 20 bytes.
Sha1(msg) == Fold(<<Len(msg) % 256>> \o msg, 20)

RECURSIVE Xor8(_, _)
Xor8(a, b) ==
  IF a = 0 THEN b
  ELSE IF b = 0 THEN a
  ELSE ((a + b) % 2) + 2 * Xor8(a \div 2, b \div 2)

RECURSIVE SumBytes(_)
SumBytes(s) == IF s = <<>> THEN 0 ELSE s[1] + SumBytes(Tail(s))

\* The i-th byte of the AES-256-OFB key stream of createCipher(password,
\* iv): a function of the password, the IV and the position only.
KeyStream(password, iv, i) ==
  (SumBytes(password) * 5 + iv[((i - 1) % 16) + 1] * 3 + i * 7 + 13) % 256

\* cipher.StreamWriter / cipher.StreamReader: XOR with the key stream.
StreamXor(password, iv, data) ==
  [i \in 1..Len(data) |-> Xor8(data[i], KeyStream(password, iv, i))]

\* signSHA256 (crypto.go)
signSHA256(payload, username, password) ==
  LET size == 36 + Len(username)
  IN PutUint16(typeSignSHA256) \o PutUint16(size)
       \o HmacSHA256(password, username \o payload) \o username \o payload

\* A verifySHA256 that never compares the MAC.
verifySHA256_NoCompare(part, payload, userToPassword) ==
  IF Len(part) <= 32
  THEN [ok |-> FALSE, err |-> "part too small"]
  ELSE LET user == SubSeq(part, 33, Len(part))
       IN IF user \notin DOMAIN userToPassword
          THEN [ok |-> FALSE, err |-> "no such user"]
          ELSE [ok |-> TRUE, err |-> "nil"]

\* verifySHA256: part is the signature part without its header, payload
\* what follows the part; the result is [ok, err].
verifySHA256(part, payload, userToPassword) ==
  IF Len(part) <= 32
  THEN [ok |-> FALSE, err |-> "part too small"]
  ELSE LET hash == SubSeq(part, 1, 32)
           user == SubSeq(part, 33, Len(part))
       IN IF user \notin DOMAIN userToPassword
          THEN [ok |-> FALSE, err |-> "no such user"]
          ELSE [ok |-> hash = HmacSHA256(userToPassword[user],
                                         user \o payload),
                err |-> "nil"]

\* encryptAES256 (crypto.go) with the random IV it drew.
encryptAES256(plaintext, username, password, iv) ==
  LET size == 42 + Len(username) + Len(plaintext)
  IN PutUint16(typeEncryptAES256) \o PutUint16(size)
       \o PutUint16(Len(username)) \o username \o iv
       \o StreamXor(password, iv, Sha1(plaintext) \o plaintext)

\* A decryptAES256 that never compares the checksum.
decryptAES256_NoChecksum(ciphertext, userToPassword) ==
  IF Len(ciphertext) < 2 THEN [plaintext |-> <<>>, err |-> "panic"]
  ELSE
    LET userLen == Uint16(ciphertext)
        bufLen == Len(ciphertext) - 2
    IN IF 42 + userLen >= bufLen
       THEN [plaintext |-> <<>>, err |-> "invalid username length"]
       ELSE
         LET user == SubSeq(ciphertext, 3, 2 + userLen)
             iv == SubSeq(ciphertext, 3 + userLen, 18 + userLen)
             data == SubSeq(ciphertext, 19 + userLen, Len(ciphertext))
         IN IF user \notin DOMAIN userToPassword
            THEN [plaintext |-> <<>>, err |-> "no such user"]
            ELSE
              LET plain == StreamXor(userToPassword[user], iv, data)
              IN [plaintext |-> SubSeq(plain, 21, Len(plain)),
                  err |-> "nil"]

\* decryptAES256: ciphertext is the encryption part without its header.
decryptAES256(ciphertext, userToPassword) ==
  IF Len(ciphertext) < 2 THEN [plaintext |-> <<>>, err |-> "panic"]
  ELSE
    LET userLen == Uint16(ciphertext)
        bufLen == Len(ciphertext) - 2
    IN IF 42 + userLen >= bufLen
       THEN [plaintext |-> <<>>, err |-> "invalid username length"]
       ELSE
         LET user == SubSeq(ciphertext, 3, 2 + userLen)
             iv == SubSeq(ciphertext, 3 + userLen, 18 + userLen)
             data == SubSeq(ciphertext, 19 + userLen, Len(ciphertext))
         IN IF user \notin DOMAIN userToPassword
            THEN [plaintext |-> <<>>, err |-> "no such user"]
            ELSE
              LET plain == StreamXor(userToPassword[user], iv, data)
                  checksumWant == SubSeq(plain, 1, 20)
                  text == SubSeq(plain, 21, Len(plain))
              IN IF Sha1(text) # checksumWant
                 THEN [plaintext |-> <<>>, err |-> "checksum mismatch"]
                 ELSE [plaintext |-> text, err |-> "nil"]

\* A sign whose length field counts the payload too.
sign_CountsPayload(payload, username, password) ==
  LET size == 36 + Len(username) + Len(payload)
  IN PutUint16(typeSignSHA256) \o PutUint16(size)
       \o HmacSHA256(password, username \o payload) \o username \o payload

\* sign (buffer.go)
sign(payload, username, password) ==
  LET size == 36 + Len(username)
  IN PutUint16(typeSignSHA256) \o PutUint16(size)
       \o HmacSHA256(password, username \o payload) \o username \o payload

\* encrypt (buffer.go) with the random IV of createCipher.
encrypt(plaintext, username, password, iv) ==
  LET size == 42 + Len(username) + Len(plaintext)
  IN PutUint16(typeEncryptAES256) \o PutUint16(size)
       \o PutUint16(Len(username)) \o username \o iv
       \o StreamXor(password, iv, Sha1(plaintext) \o plaintext)

----------------------------------------------------------------------------
(* Buffer construction and flush                                            *)

\* NewBuffer
NewBuffer ==
  [size |-> DefaultBufferSize, username |-> <<>>, password |-> <<>>,
   encrypt |-> FALSE]

\* NewBufferSigned that forgets to reserve room for the signature part.
NewBufferSigned_FullSize(username, password) ==
  [size |-> DefaultBufferSize,
   username |-> username, password |-> password, encrypt |-> FALSE]

\* NewBufferSigned
NewBufferSigned(username, password) ==
  [size |-> DefaultBufferSize - (36 + Len(username)),
   username |-> username, password |-> password, encrypt |-> FALSE]

\* NewBufferEncrypted
NewBufferEncrypted(username, password) ==
  [size |-> DefaultBufferSize - (42 + Len(username)),
   username |-> username, password |-> password, encrypt |-> TRUE]

\* The datagram Buffer.flush hands to the output writer for the bytes buf.
Wrap(c, buf, iv) ==
  IF c.username # <<>> /\ c.password # <<>>
  THEN IF c.encrypt
       THEN encrypt(buf, c.username, c.password, iv)
       ELSE sign(buf, c.username, c.password)
  ELSE buf

----------------------------------------------------------------------------
(* Inputs of the encoder                                                    *)

MaxCalls == 3

NBig == 77
NHuge == 161

T1 == [s |-> 1426076671, ns |-> 0]
T2 == [s |-> 1426076671, ns |-> 123000000]
I10 == [s |-> 10, ns |-> 0]

MkVL(pi, t, values) ==
  [Host |-> <<104>>, Plugin |-> <<112>>, PluginInstance |-> pi,
   Type |-> <<116>>, TypeInstance |-> <<>>, Time |-> t, Interval |-> I10,
   Values |-> values]

\* The value lists handed to WriteValueList: small ones that differ in the
\* plugin instance, the time and the values, one that fills half a
\* datagram, one that never fits, and one with a Counter.
VLs ==
  << MkVL(<<>>, T1, <<Derive(1)>>),
     MkVL(<<105>>, T2, <<Gauge(NaNBits), Derive(-1)>>),
     MkVL(<<>>, T1, Repeat(Derive(1), NBig)),
     MkVL(<<>>, T1, Repeat(Derive(1), NHuge)),
     MkVL(<<>>, T1, <<Counter(1)>>) >>

\* The value lists written to a signed or encrypted buffer: the small one
\* and the one that fills half a datagram.
SecuredVLs == {1, 3}

User == <<117>>
Password == <<119>>
IVs == {Repeat(0, 16), Repeat(7, 16)}

\* The buffers under test: plain, signed and encrypted, and one of each
\* secured kind that was given an empty password or an empty username.
Configs ==
  { [ctor |-> "plain", c |-> NewBuffer],
    [ctor |-> "signed", c |-> NewBufferSigned(User, Password)],
    [ctor |-> "signed", c |-> NewBufferSigned(User, <<>>)],
    [ctor |-> "encrypted", c |-> NewBufferEncrypted(User, Password)],
    [ctor |-> "encrypted", c |-> NewBufferEncrypted(<<>>, Password)] }

----------------------------------------------------------------------------
(* The server's view of a datagram                                          *)

\* SecurityLevel: None < Sign < Encrypt.
None == 0
Sign == 1
Encrypt == 2

\* Server.PasswordLookup: the users the server knows.
PasswordLookup == [u \in {User} |-> Password]

\* Parse(b, ParseOpts{PasswordLookup, SecurityLevel}): a signature or an
\* encryption part is an envelope only as the first part of the datagram;
\* the datagram is rejected when its security level is below the minimum,
\* when verification or decryption fails and when the user is unknown;
\* what the envelope holds is parsed as a plain datagram.
ParseWithOpts(b, lookup, securityLevel) ==
  LET first == IF Len(b) >= 4 THEN Uint16(SubSeq(b, 1, 2)) ELSE -1
      partLength == IF Len(b) >= 4 THEN Uint16(SubSeq(b, 3, 4)) ELSE 0
      framed == partLength >= 5 /\ partLength <= Len(b)
  IN IF first = typeSignSHA256
     THEN IF ~framed THEN [vls |-> <<>>, err |-> "invalid length"]
          ELSE LET v == verifySHA256(SubSeq(b, 5, partLength),
                                     SubSeq(b, partLength + 1, Len(b)),
                                     lookup)
               IN IF v.err # "nil" THEN [vls |-> <<>>, err |-> v.err]
                  ELSE IF ~v.ok
                  THEN [vls |-> <<>>, err |-> "verification failure"]
                  ELSE IF Sign < securityLevel
                  THEN [vls |-> <<>>, err |-> "security level too low"]
                  ELSE Parse(SubSeq(b, partLength + 1, Len(b)))
     ELSE IF first = typeEncryptAES256
     THEN IF ~framed THEN [vls |-> <<>>, err |-> "invalid length"]
          ELSE LET d == decryptAES256(SubSeq(b, 5, partLength), lookup)
               IN IF d.err # "nil" THEN [vls |-> <<>>, err |-> d.err]
                  ELSE Parse(d.plaintext)
     ELSE IF None < securityLevel
     THEN [vls |-> <<>>, err |-> "security level too low"]
     ELSE Parse(b)

\* The payload of the datagrams sent to the server: two value lists.
Payload ==
  writeValueList(
    Res(writeValueList([buf |-> <<>>, st |-> ZeroState,
                        size |-> DefaultBufferSize], VLs[1]), "nil"),
    VLs[2]).buf

\* The byte at position i replaced by another byte.
Corrupt(b, i) == [b EXCEPT ![i] = (b[i] + 1) % 256]

Stranger == <<120>>
WrongPassword == <<122>>

\* The datagrams that arrive at the socket, each with what the sender did:
\* level is the envelope it used, genuine says that it is unmodified and
\* made by a user the server knows with that user's password.
Datagrams ==
  << [bytes |-> Payload, level |-> None, genuine |-> TRUE],
     [bytes |-> Payload \o <<0, 0, 0, 3>>, level |-> None, genuine |-> TRUE],
     [bytes |-> signSHA256(Payload, User, Password),
      level |-> Sign, genuine |-> TRUE],
     [bytes |-> Corrupt(signSHA256(Payload, User, Password),
                        36 + Len(User) + Len(Payload)),
      level |-> Sign, genuine |-> FALSE],
     [bytes |-> signSHA256(Payload, Stranger, Password),
      level |-> Sign, genuine |-> FALSE],
     [bytes |-> signSHA256(Payload, User, WrongPassword),
      level |-> Sign, genuine |-> FALSE],
     [bytes |-> encryptAES256(Payload, User, Password, Repeat(7, 16)),
      level |-> Encrypt, genuine |-> TRUE],
     [bytes |-> Corrupt(encryptAES256(Payload, User, Password,
                                      Repeat(7, 16)),
                        42 + Len(User) + Len(Payload)),
      level |-> Encrypt, genuine |-> FALSE],
     [bytes |-> encryptAES256(Payload, Stranger, Password, Repeat(7, 16)),
      level |-> Encrypt, genuine |-> FALSE] >>

MaxDatagrams == 2
MaxShutdowns == 2

----------------------------------------------------------------------------
(* State                                                                    *)

VARIABLES
  cfg,      \* Buffer: constructor used, size, username, password, encrypt
  buffer,   \* Buffer.buffer: the bytes not yet flushed
  state,    \* Buffer.state: the shadow value list
  output,   \* the datagrams the output writer accepted, in order
  calls,    \* the calls returned so far: [op, vl (index in VLs), err]
  minLevel, \* Server.SecurityLevel
  async,    \* started by ListenAndWriteAsync: [on, done (wg.Done), returned]
  srvPc,    \* listenAndWrite: "init", "loop" or "returned"
  srvRet,   \* the value listenAndWrite returned
  shutdown, \* Server.shutdown: "nil" or "chan"
  sock,     \* the UDP socket: "none", "open" or "closed"
  rdPc,     \* the reader goroutine: "none", "read", "values" or "errors"
  rdMsg,    \* what the reader is sending: [dg (a datagram index, 0 when
            \* none), err ("nil" or the error)]
  nRead,    \* the number of datagrams sock.Read has returned
  workers,  \* the running dispatch goroutines: [dg, next, busy, failed]:
            \* the datagram, the index of the next value list to hand to
            \* the Writer, the value lists whose Writer call has not
            \* returned, and whether a Writer call returned an error
  callers,  \* the Shutdown calls: "blocked", "nil" or "error"
  sgIn,     \* signing: [payload, username, password, lookup]
  sgPc,     \* signing: "start", "signed" or "verified"
  sgPart,   \* the signature part without its header: MAC and username
  sgData,   \* the bytes that follow the signature part
  sgBit,    \* the bit changed in transit, 0 when none was
  sgOut,    \* what verifySHA256 returned: [ok, err]
  ecIn,     \* encrypting: [plaintext, username, password, iv]
  ecPc,     \* encrypting: "start", "encrypted" or "decrypted"
  ecText,   \* the encryption part without its header
  ecBit,    \* the ciphertext bit changed in transit, 0 when none was
  ecOut,    \* what decryptAES256 returned: [plaintext, err]
  psParts,  \* parsing: the parts of the datagram, as indexes in Parts
  psPc,     \* parsing: "start" or "parsed"
  psOut,    \* what Parse returned: [vls, err]
  ccStart,  \* concurrent calls: the buffer and shadow state they start from
  ccBuf,    \* the shared Buffer: [buf, st]
  ccOut,    \* the datagrams its output writer accepted, in order
  ccOk,     \* whether its output writer accepts datagrams
  ccLock,   \* Buffer.lock: 0 when free, else the goroutine that locked last
  ccG,      \* the goroutines: [op, vl, pc, l, retry, tmp, err]
  cnUdp,    \* Conn.udp: "none", "open" or "closed"
  cnBuffer, \* Conn.buffer: "none", "set" or "nil"
  fnIn,     \* Dispatcher.Write: the caller's value list, an index in VLs
  fnObjs,   \* the ValueList objects, by address; the caller's is at 1
  fnSlices, \* the []Value backing arrays, by address
  fnPc,     \* Dispatcher.Write: [started (goroutines), returned]
  fnG,      \* the goroutines, one per Writer: [pc, ptr, dst, got, seen]
  puIn,     \* a function applied to an argument: the argument
  puPc,     \* "start" or "done"
  puOut,    \* what the function returned
  exCb,     \* Executor.cb: the callbacks, [kind, done (channel closed)]
  exGroup,  \* Executor.group: the WaitGroup counter
  exCtx,    \* whether the context passed to Run is cancelled
  exRun,    \* Run: [pc ("idle", "range", "wait", "returned"), i]
  exStop,   \* Stop: [pc ("idle", "range", "returned"), i]
  exG       \* the callback goroutines: [pc, n (invocations of the callback)]

bufVars == <<cfg, buffer, state, output, calls>>
conVars == <<ccStart, ccBuf, ccOut, ccOk, ccLock, ccG>>
cnnVars == <<cnUdp, cnBuffer>>
fanVars == <<fnIn, fnObjs, fnSlices, fnPc, fnG>>
purVars == <<puIn, puPc, puOut>>
exeVars == <<exCb, exGroup, exCtx, exRun, exStop, exG>>
srvVars == <<minLevel, async, srvPc, srvRet, shutdown, sock, rdPc, rdMsg,
             nRead, workers, callers>>
sgnVars == <<sgIn, sgPc, sgPart, sgData, sgBit, sgOut>>
encVars == <<ecIn, ecPc, ecText, ecBit, ecOut>>
prsVars == <<psParts, psPc, psOut>>
vars == <<bufVars, srvVars, sgnVars, encVars, prsVars, conVars, cnnVars,
          fanVars, purVars, exeVars>>

\* What the actions of one part of the program leave alone.
offBuffer == <<srvVars, sgnVars, encVars, prsVars, conVars, cnnVars,
  fanVars, purVars, exeVars>>
offServer == <<bufVars, sgnVars, encVars, prsVars, conVars, cnnVars,
  fanVars, purVars, exeVars>>
offSign == <<bufVars, srvVars, encVars, prsVars, conVars, cnnVars,
  fanVars, purVars, exeVars>>
offCrypt == <<bufVars, srvVars, sgnVars, prsVars, conVars, cnnVars,
  fanVars, purVars, exeVars>>
offParse == <<bufVars, srvVars, sgnVars, encVars, conVars, cnnVars,
  fanVars, purVars, exeVars>>
offConc == <<bufVars, srvVars, sgnVars, encVars, prsVars, cnnVars,
  fanVars, purVars, exeVars>>
offConn == <<srvVars, sgnVars, encVars, prsVars, conVars,
  fanVars, purVars, exeVars>>
offFan == <<bufVars, srvVars, sgnVars, encVars, prsVars, conVars, cnnVars,
  purVars, exeVars>>
offPure == <<bufVars, srvVars, sgnVars, encVars, prsVars, conVars, cnnVars,
  fanVars, exeVars>>
offExec == <<bufVars, srvVars, sgnVars, encVars, prsVars, conVars, cnnVars,
  fanVars, purVars>>

B == [buf |-> buffer, st |-> state, size |-> cfg.c.size]

\* The IVs rand.Read can give createCipher; it is only called by encrypt.
DrawIV ==
  IF cfg.c.encrypt /\ cfg.c.username # <<>> /\ cfg.c.password # <<>>
  THEN IVs ELSE {Repeat(0, 16)}

\* Buffer.flush on buffer b: the output writer accepts the datagram
\* (ok) or fails; the result carries the datagram handed to the writer.
flush(b, ok, iv) ==
  IF Len(b.buf) = 0
  THEN [buf |-> b.buf, st |-> b.st, size |-> b.size, err |-> "nil",
        sent |-> <<>>]
  ELSE IF ~ok
  THEN [buf |-> <<>>, st |-> b.st, size |-> b.size, err |-> "write error",
        sent |-> <<>>]
  ELSE [buf |-> <<>>, st |-> ZeroState, size |-> b.size, err |-> "nil",
        sent |-> <<Wrap(cfg.c, b.buf, iv)>>]

\* Buffer.WriteValueList on buffer b.
WriteValueListOp(b, vl, ok, iv) ==
  LET l == Len(b.buf)
      r == writeValueList(b, vl)
  IN IF r.err = "nil" \/ r.err = "panic" \/ l = 0
     THEN [buf |-> r.buf, st |-> r.st, err |-> r.err, sent |-> <<>>]
     ELSE
       LET f == flush([r EXCEPT !.buf = SubSeq(r.buf, 1, l)], ok, iv)
       IN IF f.err # "nil"
          THEN [buf |-> f.buf, st |-> f.st, err |-> f.err, sent |-> f.sent]
          ELSE LET r2 == writeValueList(Res(f, "nil"), vl)
               IN [buf |-> r2.buf, st |-> r2.st, err |-> r2.err,
                   sent |-> f.sent]

\* The reader goroutine is sending nothing.
NoMsg == [dg |-> 0, err |-> "nil"]

\* No buffer in use.
IdleBuffer ==
  /\ cfg = [ctor |-> "plain", c |-> NewBuffer]
  /\ buffer = <<>>
  /\ state = ZeroState
  /\ output = <<>>
  /\ calls = <<>>

\* No server.
IdleServer ==
  /\ minLevel = None
  /\ async = [on |-> FALSE, done |-> FALSE, returned |-> FALSE]
  /\ srvPc = "init"
  /\ srvRet = "none"
  /\ shutdown = "nil"
  /\ sock = "none"
  /\ rdPc = "none"
  /\ rdMsg = NoMsg
  /\ nRead = 0
  /\ workers = <<>>
  /\ callers = <<>>

\* Nothing signed.
IdleSign ==
  /\ sgIn = [payload |-> <<>>, username |-> <<>>, password |-> <<>>,
             lookup |-> <<>>]
  /\ sgPc = "start"
  /\ sgPart = <<>>
  /\ sgData = <<>>
  /\ sgBit = 0
  /\ sgOut = [ok |-> FALSE, err |-> "none"]

\* Nothing encrypted.
IdleCrypt ==
  /\ ecIn = [plaintext |-> <<>>, username |-> <<>>, password |-> <<>>,
             iv |-> <<>>]
  /\ ecPc = "start"
  /\ ecText = <<>>
  /\ ecBit = 0
  /\ ecOut = [plaintext |-> <<>>, err |-> "none"]

\* Nothing parsed.
IdleParse ==
  /\ psParts = <<>>
  /\ psPc = "start"
  /\ psOut = [vls |-> <<>>, err |-> "none"]

\* No goroutine uses a shared buffer.
IdleConc ==
  /\ ccStart = [buf |-> <<>>, st |-> ZeroState]
  /\ ccBuf = ccStart
  /\ ccOut = <<>>
  /\ ccOk = TRUE
  /\ ccLock = 0
  /\ ccG = <<>>

\* No Conn.
IdleConn ==
  /\ cnUdp = "none"
  /\ cnBuffer = "none"

\* No Dispatcher.
IdleFan ==
  /\ fnIn = 0
  /\ fnObjs = <<>>
  /\ fnSlices = <<>>
  /\ fnPc = [started |-> 0, returned |-> FALSE]
  /\ fnG = <<>>

\* No function applied.
IdlePure ==
  /\ puIn = <<>>
  /\ puPc = "start"
  /\ puOut = <<>>

IdleExec ==
  /\ exCb = <<>>
  /\ exGroup = 0
  /\ exCtx = FALSE
  /\ exRun = [pc |-> "idle", i |-> 1]
  /\ exStop = [pc |-> "idle", i |-> 1]
  /\ exG = <<>>

\* Every part of the program is idle but the parts named in S.
IdleExcept(S) ==
  /\ "buffer" \in S \/ IdleBuffer
  /\ "server" \in S \/ IdleServer
  /\ "sign" \in S \/ IdleSign
  /\ "crypt" \in S \/ IdleCrypt
  /\ "parse" \in S \/ IdleParse
  /\ "conc" \in S \/ IdleConc
  /\ "conn" \in S \/ IdleConn
  /\ "fan" \in S \/ IdleFan
  /\ "pure" \in S \/ IdlePure
  /\ "exec" \in S \/ IdleExec

InitBuffer ==
  /\ cfg \in Configs
  /\ buffer = <<>>
  /\ state = ZeroState
  /\ output = <<>>
  /\ calls = <<>>
  /\ IdleExcept({"buffer"})

\* b.WriteValueList(VLs[k])
WriteValueList(k) ==
  /\ Len(calls) < MaxCalls
  /\ \E ok \in BOOLEAN, iv \in DrawIV :
       LET r == WriteValueListOp(B, VLs[k], ok, iv)
       IN /\ buffer' = r.buf
          /\ state' = r.st
          /\ output' = output \o r.sent
          /\ calls' = Append(calls, [op |-> "write", vl |-> k, err |-> r.err])
  /\ UNCHANGED <<cfg, offBuffer>>

\* b.Flush()
Flush ==
  /\ Len(calls) < MaxCalls
  /\ \E ok \in BOOLEAN, iv \in DrawIV :
       LET r == flush(B, ok, iv)
       IN /\ buffer' = r.buf
          /\ state' = r.st
          /\ output' = output \o r.sent
          /\ calls' = Append(calls, [op |-> "flush", vl |-> 0, err |-> r.err])
  /\ UNCHANGED <<cfg, offBuffer>>

Inputs == IF cfg.ctor = "plain" THEN 1..Len(VLs) ELSE SecuredVLs

NextBuffer ==
  \/ \E k \in Inputs : WriteValueList(k)
  \/ Flush

SpecBuffer == InitBuffer /\ [][NextBuffer]_vars

----------------------------------------------------------------------------
(* network.Server: listenAndWrite, its reader goroutine, the dispatch       *)
(* goroutines and Shutdown                                                  *)

\* A Server with a minimal security level, started with ListenAndWrite or
\* with ListenAndWriteAsync; listenAndWrite has not run yet.
InitServer ==
  /\ IdleExcept({"server"})
  /\ minLevel \in {None, Sign, Encrypt}
  /\ async \in {[on |-> a, done |-> FALSE, returned |-> FALSE] :
                  a \in BOOLEAN}
  /\ srvPc = "init"
  /\ srvRet = "none"
  /\ shutdown = "nil"
  /\ sock = "none"
  /\ rdPc = "none"
  /\ rdMsg = NoMsg
  /\ nRead = 0
  /\ workers = <<>>
  /\ callers = <<>>

\* What Parse(buf[:n], popts) returns for the datagram Datagrams[d].
\* (a sequence of sequences, indexed by datagram and by level + 1)
ParsedAt ==
  [d \in 1..Len(Datagrams) |->
     [m \in 1..3 |->
        ParseWithOpts(Datagrams[d].bytes, PasswordLookup, m - 1)] \o <<>>]
  \o <<>>

Parsed(d) == ParsedAt[d][minLevel + 1]

\* listenAndWrite: resolving the address, looking up the interface or
\* opening the socket fails; the function returns the error.
SetupFail ==
  /\ srvPc = "init"
  /\ srvPc' = "returned"
  /\ srvRet' = "setup error"
  /\ UNCHANGED <<offServer, minLevel, async, shutdown, sock, rdPc, rdMsg,
                 nRead, workers, callers>>

\* listenAndWrite: the socket is open, the channels are made, the reader
\* goroutine is started and wg.Done() is called.
SetupOk ==
  /\ srvPc = "init"
  /\ srvPc' = "loop"
  /\ sock' = "open"
  /\ shutdown' = "chan"
  /\ rdPc' = "read"
  /\ async' = [async EXCEPT !.done = async.on]
  /\ UNCHANGED <<offServer, minLevel, srvRet, rdMsg, nRead, workers, callers>>

\* ListenAndWriteAsync: wg.Wait() returns.
AsyncReturn ==
  /\ async.on /\ async.done /\ ~async.returned
  /\ async' = [async EXCEPT !.returned = TRUE]
  /\ UNCHANGED <<offServer, minLevel, srvPc, srvRet, shutdown, sock, rdPc,
                 rdMsg, nRead, workers, callers>>

\* The reader goroutine: sock.Read returns the datagram d, which is
\* parsed; the reader goes on to send the value lists or the error.
Receive(d) ==
  /\ rdPc = "read"
  /\ sock = "open"
  /\ nRead < MaxDatagrams
  /\ nRead' = nRead + 1
  /\ IF Parsed(d).err # "nil"
     THEN rdPc' = "errors" /\ rdMsg' = [dg |-> 0, err |-> Parsed(d).err]
     ELSE rdPc' = "values" /\ rdMsg' = [dg |-> d, err |-> "nil"]
  /\ UNCHANGED <<offServer, minLevel, async, srvPc, srvRet, shutdown, sock,
                 workers, callers>>

\* The reader goroutine: sock.Read fails because the socket was closed.
ReadError ==
  /\ rdPc = "read"
  /\ sock = "closed"
  /\ rdPc' = "errors"
  /\ rdMsg' = [dg |-> 0, err |-> "socket error"]
  /\ UNCHANGED <<offServer, minLevel, async, srvPc, srvRet, shutdown, sock,
                 nRead, workers, callers>>

\* A loop that runs dispatch itself and comes back to its select when
\* dispatch has returned.
LoopAtSelect_AfterDispatch(pc) == pc = "loop" /\ workers = <<>>

\* The loop of listenAndWrite waits in its select: the case that receives
\* value lists starts a goroutine and goes round at once.
LoopAtSelect(pc) == pc = "loop"

\* The select of listenAndWrite receives value lists and starts a dispatch
\* goroutine for them.
RecvValues ==
  /\ LoopAtSelect(srvPc)
  /\ rdPc = "values"
  /\ workers' = IF Parsed(rdMsg.dg).vls = <<>> THEN workers
                ELSE Append(workers,
                            [dg |-> rdMsg.dg, next |-> 1, busy |-> {},
                             failed |-> FALSE])
  /\ rdPc' = "read"
  /\ rdMsg' = NoMsg
  /\ UNCHANGED <<offServer, minLevel, async, srvPc, srvRet, shutdown, sock,
                 nRead, callers>>

\* The select receives an error: it is logged and returned; the deferred
\* sock.Close() runs.
RecvError ==
  /\ LoopAtSelect(srvPc)
  /\ rdPc = "errors"
  /\ srvPc' = "returned"
  /\ srvRet' = rdMsg.err
  /\ sock' = "closed"
  /\ rdPc' = "read"
  /\ rdMsg' = NoMsg
  /\ UNCHANGED <<offServer, minLevel, async, shutdown, nRead, workers, callers>>

\* The select receives from srv.shutdown: the field is set to nil and nil
\* is returned; the deferred sock.Close() runs; the Shutdown call that
\* sent returns nil.
RecvShutdown(c) ==
  /\ LoopAtSelect(srvPc)
  /\ c \in 1..Len(callers)
  /\ callers[c] = "blocked"
  /\ callers' = [callers EXCEPT ![c] = "nil"]
  /\ shutdown' = "nil"
  /\ srvPc' = "returned"
  /\ srvRet' = "nil"
  /\ sock' = "closed"
  /\ UNCHANGED <<offServer, minLevel, async, rdPc, rdMsg, nRead, workers>>

\* Server.Shutdown: an error when srv.shutdown is nil, otherwise the call
\* blocks sending on the channel.
Shutdown ==
  /\ Len(callers) < MaxShutdowns
  /\ callers' = Append(callers,
                       IF shutdown = "nil" THEN "error" ELSE "blocked")
  /\ UNCHANGED <<offServer, minLevel, async, srvPc, srvRet, shutdown, sock,
                 rdPc, rdMsg, nRead, workers>>

\* The sequence s without its element i.
Remove(s, i) == SubSeq(s, 1, i - 1) \o SubSeq(s, i + 1, Len(s))

\* A dispatch that starts every Writer call without waiting for the one
\* before.
Ready_Always(wk) == TRUE

\* dispatch calls d.Write in the body of its loop: the loop goes on to the
\* next value list when the call has returned.
Ready(wk) == wk.busy = {}

\* dispatch: the goroutine w calls d.Write for its next value list.
WriterStart(w) ==
  /\ Ready(workers[w])
  /\ workers[w].next <= Len(Parsed(workers[w].dg).vls)
  /\ workers' = [workers EXCEPT ![w].busy = @ \cup {workers[w].next},
                                ![w].next = @ + 1]
  /\ UNCHANGED <<offServer, minLevel, async, srvPc, srvRet, shutdown, sock,
                 rdPc, rdMsg, nRead, callers>>

\* A dispatch that returns at the first error of the Writer.
Returned_StopsAtError(wk, k, err) ==
  [wk EXCEPT !.busy = @ \ {k},
             !.failed = @ \/ err # "nil",
             !.next = IF err # "nil" THEN Len(Parsed(wk.dg).vls) + 1 ELSE @]

\* dispatch: d.Write for the value list k returned err; an error is logged
\* and the loop goes on.
Returned(wk, k, err) ==
  [wk EXCEPT !.busy = @ \ {k}, !.failed = @ \/ err # "nil"]

\* dispatch: d.Write returns; after the last value list the goroutine
\* ends.
WriterReturn(w) ==
  /\ \E k \in workers[w].busy, err \in {"nil", "write error"} :
       LET wk == Returned(workers[w], k, err)
       IN workers' = IF wk.next > Len(Parsed(wk.dg).vls) /\ wk.busy = {}
                     THEN Remove(workers, w)
                     ELSE [workers EXCEPT ![w] = wk]
  /\ UNCHANGED <<offServer, minLevel, async, srvPc, srvRet, shutdown, sock,
                 rdPc, rdMsg, nRead, callers>>

NextServer ==
  \/ SetupFail
  \/ SetupOk
  \/ AsyncReturn
  \/ \E d \in 1..Len(Datagrams) : Receive(d)
  \/ ReadError
  \/ RecvValues
  \/ RecvError
  \/ \E c \in 1..MaxShutdowns : RecvShutdown(c)
  \/ Shutdown
  \/ \E w \in 1..Len(workers) : WriterStart(w)
  \/ \E w \in 1..Len(workers) : WriterReturn(w)

SpecServer == InitServer /\ [][NextServer]_vars

\* The scheduler runs the loop of listenAndWrite when its select can
\* receive, and a dispatch goroutine that can call the Writer.  Nothing
\* makes a Writer call return, a datagram arrive or a caller shut down.
FairServer ==
  /\ WF_vars(RecvValues)
  /\ WF_vars(\E w \in 1..Len(workers) : WriterStart(w))

FairSpecServer == SpecServer /\ FairServer

----------------------------------------------------------------------------
(* signSHA256 and verifySHA256 applied to each other                        *)

MaxPayloadLen == 2
MaxNameLen == 2

\* The sequences over the set S of length at most n.
SeqsUpTo(S, n) == UNION {[1..k -> S] : k \in 0..n}

Passwords == {<<>>, <<119>>, <<122>>}

InitSign ==
  /\ IdleExcept({"sign"})
  /\ sgIn \in [payload : SeqsUpTo({1, 128}, MaxPayloadLen),
               username : SeqsUpTo({117}, MaxNameLen),
               password : Passwords,
               lookup : Passwords]
  /\ sgPc = "start"
  /\ sgPart = <<>>
  /\ sgData = <<>>
  /\ sgBit = 0
  /\ sgOut = [ok |-> FALSE, err |-> "none"]

\* The bit i (counted from 1) of the byte sequence s inverted.
FlipBit(s, i) ==
  LET at == (i - 1) \div 8 + 1
  IN [s EXCEPT ![at] = Xor8(s[at], Pow2((i - 1) % 8))]

\* signSHA256(payload, username, password); the receiver splits the output
\* at the length field of the part into the part's content and the rest.
SignStep ==
  /\ sgPc = "start"
  /\ LET out == signSHA256(sgIn.payload, sgIn.username, sgIn.password)
         size == Uint16(SubSeq(out, 3, 4))
     IN /\ sgPart' = SubSeq(out, 5, size)
        /\ sgData' = SubSeq(out, size + 1, Len(out))
  /\ sgPc' = "signed"
  /\ UNCHANGED <<offSign, sgIn, sgBit, sgOut>>

\* One bit of the MAC (the first 32 bytes of the part) or of the signed
\* payload changes in transit.
Tamper(i) ==
  /\ sgPc = "signed"
  /\ sgBit = 0
  /\ i \in 1..(8 * (32 + Len(sgData)))
  /\ sgBit' = i
  /\ IF i <= 256
     THEN sgPart' = FlipBit(sgPart, i) /\ sgData' = sgData
     ELSE sgData' = FlipBit(sgData, i - 256) /\ sgPart' = sgPart
  /\ UNCHANGED <<offSign, sgIn, sgPc, sgOut>>

\* verifySHA256(part, payload, lookup) where lookup knows the signing user
\* only.
VerifyStep ==
  /\ sgPc = "signed"
  /\ sgOut' = verifySHA256(sgPart, sgData,
                           [u \in {sgIn.username} |-> sgIn.lookup])
  /\ sgPc' = "verified"
  /\ UNCHANGED <<offSign, sgIn, sgPart, sgData, sgBit>>

NextSign ==
  \/ SignStep
  \/ \E i \in 1..(8 * (32 + MaxPayloadLen)) : Tamper(i)
  \/ VerifyStep

SpecSign == InitSign /\ [][NextSign]_vars

----------------------------------------------------------------------------
(* encryptAES256 and decryptAES256 applied to each other                    *)

MaxPlainLen == 8

\* The plaintexts: of every length up to MaxPlainLen, two of each length.
Plaintexts ==
  {[i \in 1..n |-> (i * k) % 256] : n \in 0..MaxPlainLen, k \in {1, 37}}

InitCrypt ==
  /\ IdleExcept({"crypt"})
  /\ ecIn \in [plaintext : Plaintexts,
               username : {<<>>, <<117>>},
               password : {<<>>, <<119>>},
               iv : IVs]
  /\ ecPc = "start"
  /\ ecText = <<>>
  /\ ecBit = 0
  /\ ecOut = [plaintext |-> <<>>, err |-> "none"]

\* The bytes of the encryption part before the encrypted checksum: the
\* username length, the username and the IV.
ClearLen == 2 + Len(ecIn.username) + 16

\* encryptAES256(plaintext, username, password); the receiver takes the
\* payload of the part, as long as the part's length field says.
EncryptStep ==
  /\ ecPc = "start"
  /\ LET out == encryptAES256(ecIn.plaintext, ecIn.username, ecIn.password,
                              ecIn.iv)
         size == Uint16(SubSeq(out, 3, 4))
     IN ecText' = SubSeq(out, 5, size)
  /\ ecPc' = "encrypted"
  /\ UNCHANGED <<offCrypt, ecIn, ecBit, ecOut>>

\* One bit after the IV (of the encrypted checksum or of the encrypted
\* payload) changes in transit.
TamperCipher(i) ==
  /\ ecPc = "encrypted"
  /\ ecBit = 0
  /\ i \in 1..(8 * (Len(ecText) - ClearLen))
  /\ ecBit' = i
  /\ ecText' = FlipBit(ecText, 8 * ClearLen + i)
  /\ UNCHANGED <<offCrypt, ecIn, ecPc, ecOut>>

\* decryptAES256(ciphertext, lookup) where lookup knows the encrypting user
\* only.
DecryptStep ==
  /\ ecPc = "encrypted"
  /\ ecOut' = decryptAES256(ecText,
                            [u \in {ecIn.username} |-> ecIn.password])
  /\ ecPc' = "decrypted"
  /\ UNCHANGED <<offCrypt, ecIn, ecText, ecBit>>

NextCrypt ==
  \/ EncryptStep
  \/ \E i \in 1..(8 * (20 + MaxPlainLen)) : TamperCipher(i)
  \/ DecryptStep

SpecCrypt == InitCrypt /\ [][NextCrypt]_vars

----------------------------------------------------------------------------
(* Parse applied to datagrams made of parts                                 *)

MaxParts == 3

\* A part: type, length (header included), payload.
Part(partType, payload) ==
  PutUint16(partType) \o PutUint16(4 + Len(payload)) \o payload

\* The parts a datagram is made of, each with what the format says about
\* it: the field it sets ("Values" for a Values part, "Unknown" for a part
\* of no known type, "Fault" for a part with a framing or decoding error)
\* and the value it carries.
Parts ==
  << [bytes |-> Part(typeHost, <<104, 0>>), field |-> "Host",
      val |-> <<104>>],
     [bytes |-> Part(typeHost, <<103, 0>>), field |-> "Host",
      val |-> <<103>>],
     [bytes |-> Part(typePlugin, <<112, 0>>), field |-> "Plugin",
      val |-> <<112>>],
     [bytes |-> Part(typePluginInstance, <<105, 0>>),
      field |-> "PluginInstance", val |-> <<105>>],
     [bytes |-> Part(typeType, <<116, 0>>), field |-> "Type",
      val |-> <<116>>],
     [bytes |-> Part(typeTypeInstance, <<117, 0>>),
      field |-> "TypeInstance", val |-> <<117>>],
     [bytes |-> Part(typeTimeHR, PutCdtime(cdtimeNano(T1))),
      field |-> "Time", val |-> T1],
     [bytes |-> Part(typeTime, PutInt64(1426076672)),
      field |-> "Time", val |-> [s |-> 1426076672, ns |-> 0]],
     [bytes |-> Part(typeIntervalHR, PutCdtime(cdtimeNano(I10))),
      field |-> "Interval", val |-> I10],
     [bytes |-> Part(typeValues, <<0, 1, dsTypeDerive>> \o PutInt64(1)),
      field |-> "Values", val |-> <<Derive(1)>>],
     [bytes |-> Part(typeValues, <<0, 2, dsTypeGauge, dsTypeDerive>>
                                   \o Reverse(F42Bits) \o PutInt64(-1)),
      field |-> "Values", val |-> <<Gauge(F42Bits), Derive(-1)>>],
     [bytes |-> Part(256, <<1, 2>>), field |-> "Unknown", val |-> <<>>],
     [bytes |-> <<0, 0, 0, 4>>, field |-> "Fault", val |-> <<>>],
     [bytes |-> Part(typeHost, <<104>>), field |-> "Fault", val |-> <<>>],
     [bytes |-> Part(typeValues, <<0, 1, dsTypeAbsolute>> \o PutInt64(1)),
      field |-> "Fault", val |-> <<>>],
     [bytes |-> <<0, 6, 0>>, field |-> "Fault", val |-> <<>>],
     [bytes |-> Part(typeValues, <<0, 2, dsTypeGauge, dsTypeAbsolute>>
                                   \o Reverse(F42Bits) \o PutInt64(1)),
      field |-> "Fault", val |-> <<>>],
     [bytes |-> Part(typeValues, <<0, 2, 9, dsTypeAbsolute>>
                                   \o PutInt64(1) \o PutInt64(1)),
      field |-> "Fault", val |-> <<>>],
     [bytes |-> Part(typeValues, <<0, 1, dsTypeAbsolute, 0, 0, 0, 1>>),
      field |-> "Fault", val |-> <<>>],
     [bytes |-> PutUint16(typePlugin) \o <<255, 255, 65, 0>>,
      field |-> "Fault", val |-> <<>>],
     [bytes |-> Part(typeTime, <<0, 0, 0, 7>>),
      field |-> "Fault", val |-> <<>>],
     [bytes |-> Part(typeIntervalHR, PutInt64(10) \o <<0>>),
      field |-> "Fault", val |-> <<>>] >>

\* The bytes of the datagram made of the parts ps (indexes in Parts).
RECURSIVE Bytes(_)
Bytes(ps) ==
  IF ps = <<>> THEN <<>> ELSE Parts[Head(ps)].bytes \o Bytes(Tail(ps))

InitParse ==
  /\ IdleExcept({"parse"})
  /\ psParts \in UNION {[1..n -> 1..Len(Parts)] : n \in 0..MaxParts}
  /\ psPc = "start"
  /\ psOut = [vls |-> <<>>, err |-> "none"]

\* Parse(b)
ParseStep ==
  /\ psPc = "start"
  /\ psOut' = Parse(Bytes(psParts))
  /\ psPc' = "parsed"
  /\ UNCHANGED <<offParse, psParts>>

NextParse == ParseStep

SpecParse == InitParse /\ [][NextParse]_vars

----------------------------------------------------------------------------
(* Goroutines that call WriteValueList and Flush on one Buffer.  Each call  *)
(* takes the lock, runs its statements one at a time and releases the lock. *)

MaxGoroutines == 2

\* The value lists the goroutines write: two small ones and a large one.
ConcVLs == {1, 2, 3}

\* What a goroutine calls: b.WriteValueList(VLs[vl]) or b.Flush().
ConcCalls ==
  {[op |-> "write", vl |-> k] : k \in ConcVLs} \cup {[op |-> "flush", vl |-> 0]}

\* A Buffer of NewBuffer holding buf and the shadow state st.
PlainBuffer(buf, st) == [buf |-> buf, st |-> st, size |-> NewBuffer.size]

\* A buffer that holds the large value list already.
Filled ==
  LET r == writeValueList(PlainBuffer(<<>>, ZeroState), VLs[3])
  IN [buf |-> r.buf, st |-> r.st]

InitConc ==
  /\ IdleExcept({"conc"})
  /\ ccStart \in {[buf |-> <<>>, st |-> ZeroState], Filled}
  /\ ccBuf = ccStart
  /\ ccOut = <<>>
  /\ ccOk \in BOOLEAN
  /\ ccLock = 0
  /\ ccG \in [1..MaxGoroutines ->
               {[op |-> c.op, vl |-> c.vl, pc |-> "start", l |-> 0,
                 retry |-> FALSE, tmp |-> <<>>, err |-> "none"] :
                  c \in ConcCalls}]

\* A mutex that never blocks.
Unlocked_Always(m) == TRUE

\* sync.Mutex.Lock returns when no goroutine holds the mutex m.
Unlocked(m) == m = 0

\* b.lock.Lock(), and l := b.buffer.Len() in WriteValueList
Lock(g) ==
  /\ ccG[g].pc = "start"
  /\ Unlocked(ccLock)
  /\ ccLock' = g
  /\ ccG' = [ccG EXCEPT ![g].pc = IF ccG[g].op = "flush" THEN "read"
                                  ELSE "identifier",
                        ![g].l = Len(ccBuf.buf)]
  /\ UNCHANGED <<offConc, ccStart, ccBuf, ccOut, ccOk>>

\* The statement after pc in writeValueList.
NextPart(pc) ==
  CASE pc = "identifier" -> "time"
    [] pc = "time" -> "interval"
    [] pc = "interval" -> "values"
    [] pc = "values" -> "unlock"

\* One statement of writeValueList, and what WriteValueList does with an
\* error: it returns it when the buffer was empty (l == 0) and from the
\* retry, else it goes on to truncate, flush and retry.
WritePart(g) ==
  LET me == ccG[g]
      b == PlainBuffer(ccBuf.buf, ccBuf.st)
      vl == VLs[me.vl]
      r == CASE me.pc = "identifier" -> writeIdentifier(b, vl)
             [] me.pc = "time" -> writeTime(b, vl.Time)
             [] me.pc = "interval" -> writeInterval(b, vl.Interval)
             [] me.pc = "values" -> writeValues(b, vl.Values)
  IN /\ me.pc \in {"identifier", "time", "interval", "values"}
     /\ ccBuf' = [buf |-> r.buf, st |-> r.st]
     /\ ccG' = [ccG EXCEPT ![g] =
                  IF r.err = "nil"
                  THEN [me EXCEPT !.pc = NextPart(me.pc),
                                  !.err = IF me.pc = "values" THEN "nil"
                                          ELSE me.err]
                  ELSE IF me.retry \/ me.l = 0 \/ r.err = "panic"
                  THEN [me EXCEPT !.pc = "unlock", !.err = r.err]
                  ELSE [me EXCEPT !.pc = "truncate"]]
     /\ UNCHANGED <<offConc, ccStart, ccOut, ccOk, ccLock>>

\* b.buffer.Truncate(l): it panics when the buffer is shorter than l.
Truncate(g) ==
  LET me == ccG[g]
  IN /\ me.pc = "truncate"
     /\ IF me.l > Len(ccBuf.buf)
        THEN /\ ccG' = [ccG EXCEPT ![g].pc = "unlock", ![g].err = "panic"]
             /\ UNCHANGED ccBuf
        ELSE /\ ccG' = [ccG EXCEPT ![g].pc = "read", ![g].retry = TRUE]
             /\ ccBuf' = [ccBuf EXCEPT !.buf = SubSeq(ccBuf.buf, 1, me.l)]
     /\ UNCHANGED <<offConc, ccStart, ccOut, ccOk, ccLock>>

\* Where a call goes on when its flush returned nil.
Flushed(me) ==
  IF me.op = "flush" THEN [me EXCEPT !.pc = "unlock", !.err = "nil"]
  ELSE [me EXCEPT !.pc = "identifier"]

\* flush: it returns nil on an empty buffer, else b.buffer.Read(buf) takes
\* the bytes out of the buffer.
FlushRead(g) ==
  LET me == ccG[g]
  IN /\ me.pc = "read"
     /\ IF Len(ccBuf.buf) = 0
        THEN /\ ccG' = [ccG EXCEPT ![g] = Flushed(me)]
             /\ UNCHANGED ccBuf
        ELSE /\ ccG' = [ccG EXCEPT ![g].pc = "send", ![g].tmp = ccBuf.buf]
             /\ ccBuf' = [ccBuf EXCEPT !.buf = <<>>]
     /\ UNCHANGED <<offConc, ccStart, ccOut, ccOk, ccLock>>

\* flush: b.output.Write(buf)
FlushSend(g) ==
  LET me == ccG[g]
  IN /\ me.pc = "send"
     /\ IF ccOk
        THEN /\ ccOut' = Append(ccOut, Wrap(NewBuffer, me.tmp, Repeat(0, 16)))
             /\ ccG' = [ccG EXCEPT ![g].pc = "reset"]
        ELSE /\ ccG' = [ccG EXCEPT ![g].pc = "unlock",
                                   ![g].err = "write error"]
             /\ UNCHANGED ccOut
     /\ UNCHANGED <<offConc, ccStart, ccBuf, ccOk, ccLock>>

\* flush: b.state = api.ValueList{}
FlushReset(g) ==
  LET me == ccG[g]
  IN /\ me.pc = "reset"
     /\ ccBuf' = [ccBuf EXCEPT !.st = ZeroState]
     /\ ccG' = [ccG EXCEPT ![g] = Flushed(me)]
     /\ UNCHANGED <<offConc, ccStart, ccOut, ccOk, ccLock>>

\* The deferred b.lock.Unlock(), and the return.
Unlock(g) ==
  /\ ccG[g].pc = "unlock"
  /\ ccLock' = 0
  /\ ccG' = [ccG EXCEPT ![g].pc = "returned"]
  /\ UNCHANGED <<offConc, ccStart, ccBuf, ccOut, ccOk>>

NextConc ==
  \E g \in 1..MaxGoroutines :
    \/ Lock(g)
    \/ WritePart(g)
    \/ Truncate(g)
    \/ FlushRead(g)
    \/ FlushSend(g)
    \/ FlushReset(g)
    \/ Unlock(g)

SpecConc == InitConc /\ [][NextConc]_vars

----------------------------------------------------------------------------
(* network.Conn: a UDP socket and the Buffer that writes to it.  The        *)
(* Buffer is cfg, buffer and state; output is what the socket sent.         *)

\* Dial, DialSigned, DialEncrypted: the socket is open and c.buffer is a
\* new Buffer that writes to it.
InitConn ==
  /\ IdleExcept({"buffer", "conn"})
  /\ cfg \in Configs
  /\ buffer = <<>>
  /\ state = ZeroState
  /\ output = <<>>
  /\ calls = <<>>
  /\ cnUdp = "open"
  /\ cnBuffer = "set"

\* Whether c.udp.Write can succeed: never on a closed socket.
UdpWrite == IF cnUdp = "open" THEN BOOLEAN ELSE {FALSE}

\* c.Dispatch(VLs[k]): c.buffer.WriteValueList(vl), which dereferences
\* c.buffer and panics when it is nil.
Dispatch(k) ==
  /\ Len(calls) < MaxCalls
  /\ IF cnBuffer = "nil"
     THEN /\ calls' = Append(calls, [op |-> "write", vl |-> k,
                                     err |-> "panic"])
          /\ UNCHANGED <<buffer, state, output>>
     ELSE \E ok \in UdpWrite, iv \in DrawIV :
            LET r == WriteValueListOp(B, VLs[k], ok, iv)
            IN /\ buffer' = r.buf
               /\ state' = r.st
               /\ output' = output \o r.sent
               /\ calls' = Append(calls,
                                  [op |-> "write", vl |-> k, err |-> r.err])
  /\ UNCHANGED <<cfg, cnnVars, offConn>>

\* c.Flush(): c.buffer.Flush()
ConnFlush ==
  /\ Len(calls) < MaxCalls
  /\ IF cnBuffer = "nil"
     THEN /\ calls' = Append(calls, [op |-> "flush", vl |-> 0,
                                     err |-> "panic"])
          /\ UNCHANGED <<buffer, state, output>>
     ELSE \E ok \in UdpWrite, iv \in DrawIV :
            LET r == flush(B, ok, iv)
            IN /\ buffer' = r.buf
               /\ state' = r.st
               /\ output' = output \o r.sent
               /\ calls' = Append(calls,
                                  [op |-> "flush", vl |-> 0, err |-> r.err])
  /\ UNCHANGED <<cfg, cnnVars, offConn>>

\* A Close that keeps c.buffer.
CloseConn_KeepsBuffer(b, ok, iv) ==
  LET r == flush(b, ok, iv)
  IN IF r.err # "nil"
     THEN r @@ [udp |-> cnUdp, buffer |-> cnBuffer]
     ELSE r @@ [udp |-> "closed", buffer |-> "set"]

\* Conn.Close on a Conn whose buffer is b: the error of the flush is
\* returned; else the socket is closed and c.buffer is set to nil.
CloseConn(b, ok, iv) ==
  LET r == flush(b, ok, iv)
  IN IF r.err # "nil"
     THEN r @@ [udp |-> cnUdp, buffer |-> cnBuffer]
     ELSE r @@ [udp |-> "closed", buffer |-> "nil"]

\* c.Close()
Close ==
  /\ Len(calls) < MaxCalls
  /\ IF cnBuffer = "nil"
     THEN /\ calls' = Append(calls, [op |-> "close", vl |-> 0,
                                     err |-> "panic"])
          /\ UNCHANGED <<buffer, state, output, cnnVars>>
     ELSE \E ok \in UdpWrite, iv \in DrawIV :
            LET r == CloseConn(B, ok, iv)
            IN /\ buffer' = r.buf
               /\ state' = r.st
               /\ output' = output \o r.sent
               /\ cnUdp' = r.udp
               /\ cnBuffer' = r.buffer
               /\ calls' = Append(calls,
                                  [op |-> "close", vl |-> 0, err |-> r.err])
  /\ UNCHANGED <<cfg, offConn>>

NextConn ==
  \/ \E k \in Inputs : Dispatch(k)
  \/ ConnFlush
  \/ Close

SpecConn == InitConn /\ [][NextConn]_vars

----------------------------------------------------------------------------
(* api.Dispatcher.Write: a goroutine per registered Writer.  ValueList      *)
(* objects and the backing arrays of their Values are kept by address, so   *)
(* that a copy of a pointer and a copy of an object differ.                 *)

MaxWriters == 2

\* The value lists the caller writes.
FanVLs == {1, 2}

\* A nil api.Value, the element of a slice that make returns.
NilValue == [t |-> "nil", v |-> 0]

\* The address of the caller's ValueList, the argument vl of Write.
CallerVL == 1

\* A Dispatcher with MaxWriters Writers added; the caller's value list is
\* at address 1 and its Values at address 1.
InitFan ==
  /\ IdleExcept({"fan"})
  /\ fnIn \in FanVLs
  /\ fnObjs = <<[VLs[fnIn] EXCEPT !.Values = 1]>>
  /\ fnSlices = <<VLs[fnIn].Values>>
  /\ fnPc = [started |-> 0, returned |-> FALSE]
  /\ fnG = [w \in 1..MaxWriters |->
              [pc |-> "none", ptr |-> 0, dst |-> 0, got |-> 0, seen |-> <<>>]]

\* The value list at address a as the code that holds the pointer reads it.
Deref(a) == [fnObjs[a] EXCEPT !.Values = fnSlices[fnObjs[a].Values]]

\* for _, w := range d.writers { go func(w Writer) {...}(w) }
Go(w) ==
  /\ ~fnPc.returned
  /\ w = fnPc.started + 1
  /\ w <= MaxWriters
  /\ fnPc' = [fnPc EXCEPT !.started = w]
  /\ fnG' = [fnG EXCEPT ![w].pc = "assign"]
  /\ UNCHANGED <<offFan, fnIn, fnObjs, fnSlices>>

\* return nil, once the loop has started every goroutine
WriteReturn ==
  /\ ~fnPc.returned
  /\ fnPc.started = MaxWriters
  /\ fnPc' = [fnPc EXCEPT !.returned = TRUE]
  /\ UNCHANGED <<offFan, fnIn, fnObjs, fnSlices, fnG>>

\* vlCopy := vl, both of type *ValueList: the pointer is copied.
Assign(w) ==
  /\ fnG[w].pc = "assign"
  /\ fnG' = [fnG EXCEPT ![w].pc = "make", ![w].ptr = CallerVL]
  /\ UNCHANGED <<offFan, fnIn, fnObjs, fnSlices, fnPc>>

\* vlCopy.Values = make([]Value, len(vl.Values))
Make(w) ==
  /\ fnG[w].pc = "make"
  /\ fnSlices' = Append(fnSlices,
                        [i \in 1..Len(Deref(CallerVL).Values) |-> NilValue])
  /\ fnObjs' = [fnObjs EXCEPT ![fnG[w].ptr].Values = Len(fnSlices) + 1]
  /\ fnG' = [fnG EXCEPT ![w].pc = "dst"]
  /\ UNCHANGED <<offFan, fnIn, fnPc>>

\* copy(vlCopy.Values, vl.Values): the first argument is read.
ReadDst(w) ==
  /\ fnG[w].pc = "dst"
  /\ fnG' = [fnG EXCEPT ![w].pc = "copy",
                        ![w].dst = fnObjs[fnG[w].ptr].Values]
  /\ UNCHANGED <<offFan, fnIn, fnObjs, fnSlices, fnPc>>

\* copy(vlCopy.Values, vl.Values): the second argument is read and its
\* elements are copied.
Copy(w) ==
  /\ fnG[w].pc = "copy"
  /\ fnSlices' = [fnSlices EXCEPT ![fnG[w].dst] = Deref(CallerVL).Values]
  /\ fnG' = [fnG EXCEPT ![w].pc = "write"]
  /\ UNCHANGED <<offFan, fnIn, fnObjs, fnPc>>

\* w.Write(ctx, vlCopy): the Writer is given the pointer and reads the
\* value list.
CallWriter(w) ==
  /\ fnG[w].pc = "write"
  /\ fnG' = [fnG EXCEPT ![w].pc = "called", ![w].got = fnG[w].ptr,
                        ![w].seen = <<Deref(fnG[w].ptr)>>]
  /\ UNCHANGED <<offFan, fnIn, fnObjs, fnSlices, fnPc>>

NextFan ==
  \/ WriteReturn
  \/ \E w \in 1..MaxWriters :
       \/ Go(w)
       \/ Assign(w)
       \/ Make(w)
       \/ ReadDst(w)
       \/ Copy(w)
       \/ CallWriter(w)

SpecFan == InitFan /\ [][NextFan]_vars

----------------------------------------------------------------------------
(* api.Identifier: String and ParseIdentifier applied to each other         *)

MaxFieldLen == 1

Slash == 47
Dash == 45

\* The characters of the fields: '/', '-' and a letter.
FieldChars == {Slash, Dash, 97}

Fields == SeqsUpTo(FieldChars, MaxFieldLen)

\* Identifier.String
String(id) ==
  id.Host \o <<Slash>> \o id.Plugin
    \o (IF id.PluginInstance # <<>> THEN <<Dash>> \o id.PluginInstance
        ELSE <<>>)
    \o <<Slash>> \o id.Type
    \o (IF id.TypeInstance # <<>> THEN <<Dash>> \o id.TypeInstance
        ELSE <<>>)

\* strings.Index(s, c) for a one-byte c, counted from 1; 0 when c is not
\* in s.
Index(s, c) ==
  IF \E i \in 1..Len(s) : s[i] = c
  THEN CHOOSE i \in 1..Len(s) : s[i] = c /\ \A j \in 1..(i - 1) : s[j] # c
  ELSE 0

\* strings.Split(s, sep) for a one-byte sep.
RECURSIVE Split(_, _)
Split(s, sep) ==
  LET i == Index(s, sep)
  IN IF i = 0 THEN <<s>>
     ELSE <<SubSeq(s, 1, i - 1)>> \o Split(SubSeq(s, i + 1, Len(s)), sep)

ZeroIdentifier ==
  [Host |-> <<>>, Plugin |-> <<>>, PluginInstance |-> <<>>, Type |-> <<>>,
   TypeInstance |-> <<>>]

\* A cut at the last '-'.
CutInstance_AtLast(f) ==
  LET dashes == {i \in 1..Len(f) : f[i] = Dash}
      i == IF dashes = {} THEN 0
           ELSE CHOOSE k \in dashes : \A j \in dashes : j <= k
  IN IF i # 0
     THEN [name |-> SubSeq(f, 1, i - 1), inst |-> SubSeq(f, i + 1, Len(f))]
     ELSE [name |-> f, inst |-> <<>>]

\* One of the two name fields of ParseIdentifier: the field is cut at its
\* first '-' into the name and the instance.
CutInstance(f) ==
  LET i == Index(f, Dash)
  IN IF i # 0
     THEN [name |-> SubSeq(f, 1, i - 1), inst |-> SubSeq(f, i + 1, Len(f))]
     ELSE [name |-> f, inst |-> <<>>]

\* ParseIdentifier: [id, err]
ParseIdentifier(s) ==
  LET fields == Split(s, Slash)
  IN IF Len(fields) # 3
     THEN [id |-> ZeroIdentifier, err |-> "not a valid identifier"]
     ELSE LET p == CutInstance(fields[2])
              t == CutInstance(fields[3])
          IN [id |-> [Host |-> fields[1], Plugin |-> p.name,
                      PluginInstance |-> p.inst, Type |-> t.name,
                      TypeInstance |-> t.inst],
              err |-> "nil"]

InitIdent ==
  /\ IdleExcept({"pure"})
  /\ puIn \in [Host : Fields, Plugin : Fields, PluginInstance : Fields,
               Type : Fields, TypeInstance : Fields]
  /\ puPc = "start"
  /\ puOut = <<>>

\* ParseIdentifier(id.String())
IdentStep ==
  /\ puPc = "start"
  /\ puOut' = ParseIdentifier(String(puIn))
  /\ puPc' = "done"
  /\ UNCHANGED <<offPure, puIn>>

NextIdent == IdentStep

SpecIdent == InitIdent /\ [][NextIdent]_vars

----------------------------------------------------------------------------
(* cdtime: New(t).Time() and NewDuration(d).Duration()                      *)

MaxNanos == 40

\* The times and durations converted: whole seconds from the epoch or from
\* a recent date, and a few or many nanoseconds.
CdSeconds == {0, 1, 1438062739}
CdNanos == 0..MaxNanos \cup {123000000, 123456788, 500000000, 999999999}

InitCdtime ==
  /\ IdleExcept({"pure"})
  /\ puIn \in [kind : {"time", "duration"}, s : CdSeconds, ns : CdNanos]
  /\ puPc = "start"
  /\ puOut = <<>>

\* cdtime.New(t).Time() or cdtime.NewDuration(d).Duration()
CdtimeStep ==
  /\ puPc = "start"
  /\ puOut' = LET c == newNano([s |-> puIn.s, ns |-> puIn.ns])
              IN IF puIn.kind = "time" THEN cdtimeTime(c)
                 ELSE cdtimeDuration(c)
  /\ puPc' = "done"
  /\ UNCHANGED <<offPure, puIn>>

NextCdtime == CdtimeStep

SpecCdtime == InitCdtime /\ [][NextCdtime]_vars

----------------------------------------------------------------------------
(* Properties of the encoder and the parser                                 *)

\* Equality of values, a NaN gauge being equal to a NaN gauge.
ValueEq(a, b) ==
  /\ a.t = b.t
  /\ \/ a.v = b.v
     \/ a.t = "gauge" /\ IsNaN(a.v) /\ IsNaN(b.v)

ValueListEq(a, b) ==
  /\ StateOf(a) = StateOf(b)
  /\ Len(a.Values) = Len(b.Values)
  /\ \A i \in 1..Len(a.Values) : ValueEq(a.Values[i], b.Values[i])

ValueListsEq(x, y) ==
  /\ Len(x) = Len(y)
  /\ \A i \in 1..Len(x) : ValueListEq(x[i], y[i])

Last(s) == s[Len(s)]

WriteCalls == SelectSeq(calls, LAMBDA c : c.op = "write")

\* The value lists handed to WriteValueList so far, in call order.
Handed == [i \in 1..Len(WriteCalls) |-> VLs[WriteCalls[i].vl]]

EmptyBuffer == [buf |-> <<>>, st |-> ZeroState, size |-> cfg.c.size]

\* The value list does not fit into an empty buffer of this configuration.
TooLarge(vl) == writeValueList(EmptyBuffer, vl).err = "nospace"

WriterFailed == \E i \in 1..Len(calls) : calls[i].err = "write error"

Wraps == cfg.c.username # <<>> /\ cfg.c.password # <<>>

\* The plaintext of a datagram this buffer emitted.
Unwrap(d) ==
  IF ~Wraps THEN d
  ELSE IF cfg.c.encrypt
  THEN decryptAES256(SubSeq(d, 5, Len(d)),
                     [u \in {cfg.c.username} |-> cfg.c.password]).plaintext
  ELSE SubSeq(d, 37 + Len(cfg.c.username), Len(d))

\* The value lists parsed from the datagrams, concatenated in emission order.
RECURSIVE ParsedFrom(_)
ParsedFrom(ds) ==
  IF ds = <<>> THEN <<>>
  ELSE Parse(Unwrap(ds[1])).vls \o ParsedFrom(Tail(ds))

ParsedClean(ds) == \A i \in 1..Len(ds) : Parse(Unwrap(ds[i])).err = "nil"

\* Host, Plugin and Type non-empty, Interval > 0, one or more values, each
\* a Counter, a Derive or a Gauge.
Legal(vl) ==
  /\ vl.Host # <<>> /\ vl.Plugin # <<>> /\ vl.Type # <<>>
  /\ vl.Interval # ZeroDuration
  /\ Len(vl.Values) >= 1
  /\ \A i \in 1..Len(vl.Values) :
       vl.Values[i].t \in {"counter", "derive", "gauge"}

\* C1: value lists written to one buffer that all fit into one datagram (no
\* write failed, nothing was flushed) parse back, from the bytes of that
\* datagram, as the same sequence in the same order with equal fields.
C1_SingleDatagramRoundTrip ==
  (/\ calls # <<>>
   /\ output = <<>>
   /\ \A i \in 1..Len(calls) : calls[i].op = "write" /\ calls[i].err = "nil")
  => /\ Parse(buffer).err = "nil"
     /\ ValueListsEq(Parse(buffer).vls, Handed)

\* C2: a legal value list written to an empty plain buffer and flushed is
\* emitted as one datagram that parses to exactly that value list.
C2_RoundTrip ==
  (/\ cfg.ctor = "plain"
   /\ Len(calls) = 2
   /\ calls[1].op = "write" /\ calls[2].op = "flush"
   /\ calls[2].err = "nil"
   /\ Legal(VLs[calls[1].vl])
   /\ ~TooLarge(VLs[calls[1].vl]))
  => /\ Len(output) = 1
     /\ Parse(output[1]).err = "nil"
     /\ ValueListsEq(Parse(output[1]).vls, <<VLs[calls[1].vl]>>)

\* C3: every datagram handed to the output writer is at most 1452 bytes
\* long, envelope included, and the buffer never holds more bytes than its
\* reduced budget.
C3_MTUBound ==
  /\ \A i \in 1..Len(output) : Len(output[i]) <= DefaultBufferSize
  /\ Len(buffer) <= cfg.c.size

\* A signed buffer that overflowed emitted a datagram on its own.
C3_Witness ==
  /\ cfg.ctor = "signed" /\ Wraps
  /\ \A i \in 1..Len(calls) : calls[i].op = "write"
  /\ output # <<>>
  /\ Len(output[1]) > 700

\* C4: with a writer that never fails and value lists that fit into an
\* empty buffer, after a Flush the value lists parsed from the datagrams,
\* concatenated in emission order, are the value lists written, in order.
C4_FlushedInOrder ==
  (/\ calls # <<>>
   /\ Last(calls).op = "flush"
   /\ ~WriterFailed
   /\ \A i \in 1..Len(Handed) : ~TooLarge(Handed[i]))
  => /\ ParsedClean(output)
     /\ ValueListsEq(ParsedFrom(output), Handed)

\* C5: WriteValueList of a value list that does not fit into an empty
\* buffer returns the not-enough-space error and leaves the buffer empty.
C5_RejectedLeavesBufferEmpty ==
  (/\ calls # <<>>
   /\ Last(calls).op = "write"
   /\ Last(calls).err # "write error"
   /\ TooLarge(VLs[Last(calls).vl]))
  => /\ Last(calls).err = "nospace"
     /\ buffer = <<>>

\* C6: WriteValueList of a value list with a value variant the encoder does
\* not emit returns an error, and leaves the buffer bytes and the shadow
\* state as they were before the call.
C6_UnsupportedRejected ==
  [][(/\ Len(calls') = Len(calls) + 1
      /\ Last(calls').op = "write"
      /\ ~Supported(VLs[Last(calls').vl].Values))
     => /\ Last(calls').err \notin {"nil", "panic"}
        /\ buffer' = buffer
        /\ state' = state]_vars

\* What the format has a value list vl add to a datagram whose last value
\* list had the fields ref: a part for each identifier field that differs,
\* in the order Host, Plugin, PluginInstance, Type, TypeInstance, a TimeHR
\* part when the time differs, an IntervalHR part when the interval
\* differs, and one Values part.
ExpectedParts(ref, vl) ==
  LET str(typ, f) == IF vl[f] # ref[f] THEN Part(typ, vl[f] \o <<0>>)
                     ELSE <<>>
  IN str(typeHost, "Host") \o str(typePlugin, "Plugin")
       \o str(typePluginInstance, "PluginInstance")
       \o str(typeType, "Type") \o str(typeTypeInstance, "TypeInstance")
       \o (IF vl.Time # ref.Time
           THEN Part(typeTimeHR, PutCdtime(cdtimeNano(vl.Time))) ELSE <<>>)
       \o (IF vl.Interval # ref.Interval
           THEN Part(typeIntervalHR, PutCdtime(cdtimeNano(vl.Interval)))
           ELSE <<>>)
       \o Part(typeValues, PutUint16(Len(vl.Values)) \o TypeTags(vl.Values)
                             \o ValueCells(vl.Values))

\* The last call was a WriteValueList that returned nil.
Wrote == calls # <<>> /\ Last(calls).op = "write" /\ Last(calls).err = "nil"

\* C15: a WriteValueList that returns nil appends to the datagram exactly
\* the parts of the fields that differ from the previously written value
\* list of this datagram (from the zero value in an empty buffer, also the
\* buffer emptied by the flush inside the call), then one Values part.
C15_PartsAppended ==
  [][(/\ Len(calls') = Len(calls) + 1
      /\ Last(calls').op = "write"
      /\ Last(calls').err = "nil"
      /\ buffer = <<>> \/ Wrote)
     => LET fresh == buffer = <<>> \/ output' # output
            ref == IF fresh THEN ZeroState
                   ELSE StateOf(VLs[Last(calls).vl])
        IN buffer' = (IF fresh THEN <<>> ELSE buffer)
                       \o ExpectedParts(ref, VLs[Last(calls').vl])]_vars

\* C16: after a Flush that returned nil the buffer is empty and the shadow
\* state is the zero value.
C16_FlushResets ==
  (calls # <<>> /\ Last(calls).op = "flush" /\ Last(calls).err = "nil")
  => buffer = <<>> /\ state = ZeroState

----------------------------------------------------------------------------
(* Properties of the server                                                 *)

\* The datagram d passes the checks of a server with the minimum level m:
\* its envelope is at least m, it is unmodified, and it was made by a user
\* the password lookup knows, with that user's password.
Acceptable(d, m) == Datagrams[d].level >= m /\ Datagrams[d].genuine

\* The errors Parse returns for a datagram it rejects.
ParseErrors ==
  {"invalid length", "panic", "part too small", "no such user",
   "verification failure", "security level too low",
   "invalid username length", "checksum mismatch"}

\* C7: the Writer is never invoked for a value list of a datagram whose
\* security level is below the server's minimum, whose signature or
\* checksum does not verify, or whose user the password lookup does not
\* know: no such datagram is handed to a dispatch goroutine.
C7_RejectedNeverDispatched ==
  /\ \A w \in 1..Len(workers) : Acceptable(workers[w].dg, minLevel)
  /\ rdPc = "values" => Acceptable(rdMsg.dg, minLevel)

\* A datagram has been rejected for its level or its verification while a
\* dispatch goroutine of an accepted signed or encrypted datagram is in a
\* Writer call.
C7_Witness ==
  /\ rdPc = "errors"
  /\ rdMsg.err \in {"security level too low", "verification failure",
                "checksum mismatch", "no such user"}
  /\ \E w \in 1..Len(workers) :
       workers[w].busy # {} /\ Datagrams[workers[w].dg].level >= Sign

\* C8: a datagram that fails to parse, verify or decrypt never makes the
\* listen loop return.
C8_ParseErrorKeepsLoop ==
  srvPc = "returned" => srvRet \notin ParseErrors

\* C9: after the cancellation signal was taken in the read loop, the value
\* listenAndWrite returns is the cancellation cause.
C9_ReturnsCancellationCause ==
  (srvPc = "returned" /\ \E c \in 1..Len(callers) : callers[c] = "nil")
  => srvRet = "context.Canceled"

\* C18: for the value lists of one datagram at most one Writer call is in
\* progress, and it is the call for the last value list handed out: the
\* call for the k-th value list starts after the call for the (k-1)-th
\* returned, in the order in which Parse returned the value lists.
C18_OneAtATimeInOrder ==
  \A w \in 1..Len(workers) :
    /\ workers[w].busy \subseteq {workers[w].next - 1}
    /\ workers[w].next \in 1..(Len(Parsed(workers[w].dg).vls) + 1)

\* The Writer call for the second value list of a datagram is in progress
\* while a goroutine of another datagram is in its first call.
C18_Witness ==
  \E v, w \in 1..Len(workers) :
    /\ v # w
    /\ workers[v].busy = {2}
    /\ workers[w].busy = {1}

\* A dispatch goroutine of the datagram d is in a Writer call.
InWriter(d) ==
  \E w \in 1..Len(workers) : workers[w].dg = d /\ workers[w].busy # {}

\* The reader goroutine offers the value lists of the datagram d to the
\* select of a running listen loop.
Holding(d) ==
  rdPc = "values" /\ srvPc = "loop" /\ rdMsg.dg = d

\* C28: whatever Writer calls are blocked, the reader goroutine that has
\* value lists to hand over gets back to reading, and a Writer call is
\* started for the value lists of the datagram it read, unless the listen
\* loop has returned meanwhile.
C28_BlockedWriterKeepsLoop ==
  /\ (rdPc = "values" /\ srvPc = "loop")
       ~> (rdPc = "read" \/ srvPc = "returned")
  /\ \A d \in 1..Len(Datagrams) :
       (Holding(d) /\ Parsed(d).vls # <<>> /\ ~InWriter(d))
       ~> (InWriter(d) \/ srvPc = "returned")

\* A second datagram was read and a Writer call was started for it while
\* the Writer call for the first datagram has not returned, and the reader
\* is reading again.
C28_Witness ==
  /\ Len(workers) = 2
  /\ workers[1].dg # workers[2].dg
  /\ workers[1].busy = {1}
  /\ workers[2].busy = {1}
  /\ rdPc = "read"
  /\ srvPc = "loop"

\* The value lists of the datagram of the dispatch goroutine wk.
Lists(wk) == Parsed(wk.dg).vls

\* The dispatch goroutine wk has value lists left and is not in a Writer
\* call, after a Writer call of its returned an error.
FailedAndWaiting(wk) ==
  wk.failed /\ wk.busy = {} /\ wk.next <= Len(Lists(wk))

\* A Writer call of a dispatch goroutine returns an error.
WriterFails ==
  \E w \in 1..Len(workers) : \E k \in workers[w].busy :
    LET wk == Returned(workers[w], k, "write error")
    IN workers' = IF wk.next > Len(Lists(wk)) /\ wk.busy = {}
                  THEN Remove(workers, w)
                  ELSE [workers EXCEPT ![w] = wk]

\* C29: a Writer call that returns an error leaves the listen loop, its
\* socket and its reader as they are; a dispatch goroutine ends only when
\* it has handed every value list of its datagram to the Writer; and after
\* an error the next value list of the datagram is passed to the Writer.
C29_WriterErrorOnlyLogged ==
  /\ [][WriterFails
          => srvPc' = srvPc /\ srvRet' = srvRet /\ sock' = sock
             /\ rdPc' = rdPc]_vars
  /\ [][\A w \in 1..Len(workers) :
          workers' = Remove(workers, w)
          => workers[w].next > Len(Lists(workers[w]))]_vars
  /\ (\E w \in 1..Len(workers) : FailedAndWaiting(workers[w]))
       ~> ~(\E w \in 1..Len(workers) : FailedAndWaiting(workers[w]))

\* The second value list of a datagram is in its Writer call after the call
\* for the first returned an error, and the listen loop is running.
C29_Witness ==
  /\ srvPc = "loop"
  /\ \E w \in 1..Len(workers) :
       workers[w].failed /\ workers[w].busy = {2}

\* C35: Shutdown never blocks forever.  No select receives from
\* srv.shutdown once listenAndWrite has returned, so a call that is blocked
\* sending on the channel then stays blocked: no Shutdown call is blocked
\* when listenAndWrite has returned.
C35_ShutdownNeverBlocked ==
  srvPc = "returned" => \A c \in 1..Len(callers) : callers[c] # "blocked"

\* C36: ListenAndWriteAsync always returns to its caller.  wg.Wait()
\* returns after the wg.Done() of listenAndWrite only: when listenAndWrite
\* has returned, wg.Done() was called.
C36_AsyncAlwaysReturns ==
  (async.on /\ srvPc = "returned") => async.done

\* C40: when listenAndWrite has returned, the reader goroutine is not
\* blocked sending on the values channel or on the errors channel, which
\* nothing receives from any more.
C40_ReaderNotBlocked ==
  srvPc = "returned" => rdPc \notin {"values", "errors"}

----------------------------------------------------------------------------
(* Properties of signSHA256 and verifySHA256                                *)

\* verifySHA256 has returned true.
Verified == sgPc = "verified" /\ sgOut.ok

\* C10 (as stated): for every payload, every username of length 0 or more
\* and every password, the signature verifies with the lookup that maps
\* the user to the password; it does not verify when a bit of the MAC or of
\* the payload was changed or when the looked-up password differs.
C10_SignVerify ==
  sgPc = "verified"
  => (sgOut.ok <=> (sgBit = 0 /\ sgIn.lookup = sgIn.password))

\* C10 (amended): the same for every username of length 1 or more; with an
\* empty username verifySHA256 returns false and the error "part too
\* small".
C10_SignVerifyNamed ==
  sgPc = "verified"
  => IF sgIn.username = <<>>
     THEN ~sgOut.ok /\ sgOut.err = "part too small"
     ELSE sgOut.ok <=> (sgBit = 0 /\ sgIn.lookup = sgIn.password)

\* A signature of a non-empty payload by a named user has verified.
C10_Witness ==
  /\ Verified
  /\ sgIn.username # <<>>
  /\ sgIn.payload # <<>>
  /\ sgIn.password # <<>>

----------------------------------------------------------------------------
(* Properties of encryptAES256 and decryptAES256                            *)

\* C11: for every plaintext of any length, every username and every
\* password, decrypting what encryptAES256 made returns the plaintext and
\* no error; after a change of one ciphertext bit behind the IV decryption
\* returns an error.
C11_EncryptDecrypt ==
  ecPc = "decrypted"
  => IF ecBit = 0
     THEN ecOut.err = "nil" /\ ecOut.plaintext = ecIn.plaintext
     ELSE ecOut.err # "nil"

----------------------------------------------------------------------------
(* Properties of Parse                                                      *)

\* The index of the first faulty part of ps, Len(ps) + 1 when none is.
FirstFault(ps) ==
  LET F == {i \in 1..Len(ps) : Parts[ps[i]].field = "Fault"}
  IN IF F = {} THEN Len(ps) + 1 ELSE CHOOSE i \in F : \A j \in F : i <= j

\* What the format says the field f holds after the parts ps: what the
\* last part of ps that sets f carries, the zero value when none does.
FieldAfter(ps, f) ==
  LET S == {i \in 1..Len(ps) : Parts[ps[i]].field = f}
  IN IF S = {} THEN ZeroState[f]
     ELSE Parts[ps[CHOOSE i \in S : \A j \in S : j <= i]].val

\* What the format says the parts ps emit: one value list for each Values
\* part, made of the fields set by the parts before it.
ExpectedLists(ps) ==
  LET V == {i \in 1..Len(ps) : Parts[ps[i]].field = "Values"}
      at(k) == CHOOSE i \in V : Cardinality({j \in V : j <= i}) = k
  IN [k \in 1..Cardinality(V) |->
        [Host |-> FieldAfter(SubSeq(ps, 1, at(k)), "Host"),
         Plugin |-> FieldAfter(SubSeq(ps, 1, at(k)), "Plugin"),
         PluginInstance |->
           FieldAfter(SubSeq(ps, 1, at(k)), "PluginInstance"),
         Type |-> FieldAfter(SubSeq(ps, 1, at(k)), "Type"),
         TypeInstance |-> FieldAfter(SubSeq(ps, 1, at(k)), "TypeInstance"),
         Time |-> FieldAfter(SubSeq(ps, 1, at(k)), "Time"),
         Interval |-> FieldAfter(SubSeq(ps, 1, at(k)), "Interval"),
         Values |-> Parts[ps[at(k)]].val]]

\* C12: when a part has a framing or decoding error, Parse returns an
\* error and exactly the value lists of the Values parts before that part,
\* whatever follows it.
C12_StopsAtFault ==
  (psPc = "parsed" /\ FirstFault(psParts) <= Len(psParts))
  => /\ psOut.err \notin {"nil", "panic"}
     /\ ValueListsEq(psOut.vls,
                     ExpectedLists(SubSeq(psParts, 1,
                                          FirstFault(psParts) - 1)))

\* C13: every Values part emits a copy of the parser state with the values
\* of the part and leaves the state as it is: the value lists Parse returns
\* are, one for each Values part before the first faulty part, the fields
\* set by the parts before that Values part (a field set by no part since
\* the previous value list is inherited), and no later part changes them.
C13_EmitsCopyOfState ==
  (psPc = "parsed" /\ psOut.err # "panic")
  => ValueListsEq(psOut.vls,
                  ExpectedLists(SubSeq(psParts, 1, FirstFault(psParts) - 1)))

\* A datagram of three parts was parsed into two value lists, the second
\* of which inherits a field set before the first.
C13_Witness ==
  /\ psPc = "parsed"
  /\ Len(psOut.vls) = 2
  /\ Parts[psParts[1]].field \notin {"Values", "Unknown", "Fault"}
  /\ StateOf(psOut.vls[2]) = StateOf(psOut.vls[1])
  /\ StateOf(psOut.vls[2]) # ZeroState

\* C14: a part of no known type is skipped: Parse returns for the datagram
\* what it returns for the same datagram without that part, the value
\* lists and the error.
C14_UnknownSkipped ==
  psPc = "parsed"
  => \A i \in 1..Len(psParts) :
       (Parts[psParts[i]].field = "Unknown" /\ i < FirstFault(psParts))
       => psOut = Parse(Bytes(Remove(psParts, i)))

\* A datagram with a part of no known type between a part that sets a
\* field and a Values part was parsed.
C14_Witness ==
  /\ psPc = "parsed"
  /\ Len(psParts) = 3
  /\ Parts[psParts[1]].field = "Host"
  /\ Parts[psParts[2]].field = "Unknown"
  /\ Parts[psParts[3]].field = "Values"
  /\ Len(psOut.vls) = 1
  /\ psOut.vls[1].Host = Parts[psParts[1]].val

\* The type field of the part p of Parts.
PartType(p) == Uint16(SubSeq(Parts[p].bytes, 1, 2))

\* The largest element of the non-empty set S of numbers.
Max(S) == CHOOSE i \in S : \A j \in S : j <= i

\* C30: when a Time part and a TimeHR part both come between a Values part
\* and the Values part before it (or the start of the datagram), the value
\* list emitted for that Values part carries the time of the TimeHR part,
\* in whichever order the two parts come.
C30_TimeHRWins ==
  psPc = "parsed"
  => \A i \in 1..Len(psParts) :
       (Parts[psParts[i]].field = "Values" /\ i < FirstFault(psParts))
       => LET V == {j \in 1..(i - 1) : Parts[psParts[j]].field = "Values"}
              since == IF V = {} THEN 1 ELSE Max(V) + 1
              H == {j \in since..(i - 1) : PartType(psParts[j]) = typeTimeHR}
              S == {j \in since..(i - 1) : PartType(psParts[j]) = typeTime}
          IN (H # {} /\ S # {})
             => psOut.vls[Cardinality(V) + 1].Time = Parts[psParts[Max(H)]].val

\* The type tags of the Values part p of Parts.
Tags(p) ==
  LET b == Parts[p].bytes
  IN SubSeq(b, 7, 6 + Uint16(SubSeq(b, 5, 6)))

\* The Values part p holds the type tag 3 (Absolute).
HasAbsolute(p) ==
  /\ PartType(p) = typeValues
  /\ Len(Parts[p].bytes) >= 6
  /\ Len(Parts[p].bytes) >= 6 + Uint16(SubSeq(Parts[p].bytes, 5, 6))
  /\ \E i \in 1..Len(Tags(p)) : Tags(p)[i] = dsTypeAbsolute

\* Every type tag of the Values part p before its first Absolute is a
\* Counter, a Gauge or a Derive.
KnownBeforeAbsolute(p) ==
  \A i \in 1..Len(Tags(p)) :
    (\A j \in 1..(i - 1) : Tags(p)[j] # dsTypeAbsolute)
    => Tags(p)[i] \in {dsTypeCounter, dsTypeGauge, dsTypeDerive,
                       dsTypeAbsolute}

\* The Values part p holds nine bytes for each value it counts.
WellCounted(p) ==
  Len(Parts[p].bytes) = 6 + 9 * Uint16(SubSeq(Parts[p].bytes, 5, 6))

\* Parse stopped at the part f of the datagram with the Unsupported error
\* and returned the value lists of the parts before it.
StoppedUnsupported(f) ==
  /\ psOut.err = "unsupported"
  /\ ValueListsEq(psOut.vls, ExpectedLists(SubSeq(psParts, 1, f - 1)))

RECURSIVE Rest(_)
Rest(k) ==
  IF k > Len(psParts) THEN <<>>
  ELSE Parts[psParts[k]].bytes \o Rest(k + 1)

\* The header length of the part at the head of the bytes r is below 5 or
\* larger than r.
BadLength(r) ==
  Uint16(SubSeq(r, 3, 4)) < 5 \/ Uint16(SubSeq(r, 3, 4)) > Len(r)

\* The part at the head of the bytes r is a string part whose last payload
\* byte is not NUL.
NoNul(r) ==
  /\ ~BadLength(r)
  /\ Uint16(SubSeq(r, 1, 2)) \in {typeHost, typePlugin, typePluginInstance,
                                  typeType, typeTypeInstance}
  /\ r[Uint16(SubSeq(r, 3, 4))] # 0

\* The part at the head of the bytes r is a time or interval part whose
\* total length is not 12.
NotTwelve(r) ==
  /\ ~BadLength(r)
  /\ Uint16(SubSeq(r, 1, 2)) \in {typeTime, typeTimeHR, typeInterval,
                                  typeIntervalHR}
  /\ Uint16(SubSeq(r, 3, 4)) # 12

\* C34: when the first part Parse cannot take has a whole header and a
\* header length below 5 or larger than the bytes remaining, Parse returns
\* the invalid length error; when it is a string part without the final NUL
\* or a time or interval part whose length is not 12, Parse returns the
\* Invalid error.
C34_MalformedReported ==
  (psPc = "parsed" /\ FirstFault(psParts) <= Len(psParts)
     /\ Len(Rest(FirstFault(psParts))) >= 4)
  => LET r == Rest(FirstFault(psParts))
     IN /\ BadLength(r) => psOut.err = "invalid length"
        /\ (NoNul(r) \/ NotTwelve(r)) => psOut.err = "invalid"

\* A datagram whose second part is an interval part of 13 bytes was parsed:
\* Parse stopped there with the Invalid error.
C34_Witness ==
  /\ psPc = "parsed"
  /\ Len(psParts) = 3
  /\ FirstFault(psParts) = 2
  /\ NotTwelve(Rest(2))
  /\ Uint16(SubSeq(Rest(2), 3, 4)) = 13
  /\ psOut.err = "invalid"

\* C26: for every byte string Parse returns value lists with an error or
\* nil; it never stops in a run-time panic on an out-of-range access.
C26_ParseReturns ==
  psPc = "parsed" => psOut.err # "panic"

----------------------------------------------------------------------------
(* Properties of concurrent calls on one Buffer                             *)

\* The orders in which the calls of the goroutines can be put.
Orders ==
  {o \in [1..MaxGoroutines -> 1..MaxGoroutines] :
     \A i, j \in 1..MaxGoroutines : o[i] = o[j] => i = j}

\* The calls of the goroutines made one after the other in the order given,
\* on the buffer b: the buffer left and the datagrams emitted.
RECURSIVE Sequential(_, _, _)
Sequential(order, b, sent) ==
  IF order = <<>> THEN [buf |-> b.buf, st |-> b.st, sent |-> sent]
  ELSE LET c == ccG[Head(order)]
           r == IF c.op = "flush" THEN flush(b, ccOk, Repeat(0, 16))
                ELSE WriteValueListOp(b, VLs[c.vl], ccOk, Repeat(0, 16))
       IN Sequential(Tail(order), PlainBuffer(r.buf, r.st), sent \o r.sent)

AllReturned == \A g \in 1..MaxGoroutines : ccG[g].pc = "returned"

\* C17: when the concurrent WriteValueList and Flush calls on one Buffer
\* have returned, the datagrams emitted, the bytes left in the buffer and
\* the shadow state are those of the calls made one after the other in some
\* order, so the parts of two value lists are not interleaved.
C17_Serialized ==
  AllReturned
  => \E o \in Orders :
       LET s == Sequential(o, PlainBuffer(ccStart.buf, ccStart.st), <<>>)
       IN /\ ccOut = s.sent
          /\ ccBuf.buf = s.buf
          /\ ccBuf.st = s.st

\* Every goroutine has written a value list, one of them after the flush
\* inside its call emitted what the others had put in the buffer.
C17_Witness ==
  /\ AllReturned
  /\ \A g \in 1..MaxGoroutines : ccG[g].op = "write" /\ ccG[g].err = "nil"
  /\ \E g \in 1..MaxGoroutines : ccG[g].retry
  /\ ccOut # <<>>

----------------------------------------------------------------------------
(* Properties of Conn                                                       *)

\* A Close of the Conn has returned nil.
Closed == \E i \in 1..Len(calls) : calls[i].op = "close" /\ calls[i].err = "nil"

C37_CloseClosesSocket ==
  (\E i \in 1..Len(calls) : calls[i].op = "close" /\ calls[i].err # "panic")
  => cnUdp = "closed"

----------------------------------------------------------------------------
(* Properties of Dispatcher.Write                                           *)

\* The Writers that have been called.
Called == {w \in 1..MaxWriters : fnG[w].pc = "called"}

\* C20: every Writer is given a ValueList object of its own, which is not
\* the caller's object and not the object given to another Writer, with the
\* identifier and the values of the original; the caller's value list is
\* not modified.
C20_IndependentCopies ==
  /\ \A w \in Called :
       /\ fnG[w].got # CallerVL
       /\ \A x \in Called : x # w => fnG[x].got # fnG[w].got
       /\ ValueListEq(fnG[w].seen[1], VLs[fnIn])
  /\ fnIn \in FanVLs => ValueListEq(Deref(CallerVL), VLs[fnIn])

----------------------------------------------------------------------------
(* Properties of the envelopes the Buffer emits                             *)

C27_NeverUnwrapped ==
  cfg.ctor # "plain"
  => \A i \in 1..Len(output) :
       /\ Len(output[i]) >= 4
       /\ Uint16(SubSeq(output[i], 1, 2)) =
            IF cfg.c.encrypt THEN typeEncryptAES256 ELSE typeSignSHA256

----------------------------------------------------------------------------
(* Properties of Identifier.String and ParseIdentifier                      *)

NoChar(f, c) == \A i \in 1..Len(f) : f[i] # c

\* C22: for an identifier whose fields hold no '/' and whose Plugin and
\* Type hold no '-', ParseIdentifier(id.String()) returns the identifier
\* and no error.
C22_IdentifierRoundTrip ==
  (/\ puPc = "done"
   /\ \A f \in DOMAIN puIn : NoChar(puIn[f], Slash)
   /\ NoChar(puIn.Plugin, Dash)
   /\ NoChar(puIn.Type, Dash))
  => puOut = [id |-> puIn, err |-> "nil"]

\* An identifier with '-' in its PluginInstance and in its TypeInstance and
\* a non-empty Plugin went through String and ParseIdentifier.
C22_Witness ==
  /\ puPc = "done"
  /\ puIn.Plugin = <<97>>
  /\ puIn.PluginInstance = <<Dash>>
  /\ puIn.TypeInstance = <<Dash>>
  /\ puOut.err = "nil"
  /\ puOut.id = puIn

----------------------------------------------------------------------------
(* Parse of one Values part with any count                                  *)

MaxCount == 3
MaxRestLen == 28

\* Counts n whose product n * 9 does not fit 16 bits.
WrapCounts == {7282, 7283, 8193, 14564, 65535}

Counts == 0..MaxCount \cup WrapCounts

\* The bytes that fill the part after its count: type tags and cells.
Fillers == {dsTypeCounter, dsTypeGauge, dsTypeDerive, dsTypeAbsolute, 9}

\* A Values part with the count n followed by len bytes b.
ValuesPart(n, len, b) == Part(typeValues, PutUint16(n) \o Repeat(b, len))

\* The count n, the number of bytes that follow it, which is small or what
\* n * 9 is in 16 bits, and the byte they all hold.
InitValues ==
  /\ IdleExcept({"pure"})
  /\ \E n \in Counts, b \in Fillers :
       \E len \in 0..MaxRestLen \cup {(n * 9) % 65536} :
         puIn = [n |-> n, len |-> len, b |-> b]
  /\ puPc = "start"
  /\ puOut = <<>>

\* Parse(b) for the datagram that is the one part
ValuesStep ==
  /\ puPc = "start"
  /\ puOut' = Parse(ValuesPart(puIn.n, puIn.len, puIn.b))
  /\ puPc' = "done"
  /\ UNCHANGED <<offPure, puIn>>

NextValues == ValuesStep

SpecValues == InitValues /\ [][NextValues]_vars

----------------------------------------------------------------------------
(* exec.Executor: Run, Stop and the callback goroutines                     *)

MaxCallbacks == 2
MaxInvocations == 1

Registered == 1..Len(exCb)

InitExec ==
  /\ IdleExcept({"exec"})
  /\ exCb = <<>>
  /\ exGroup = 0
  /\ exCtx = FALSE
  /\ exRun = [pc |-> "idle", i |-> 1]
  /\ exStop = [pc |-> "idle", i |-> 1]
  /\ exG = <<>>

\* e.cb is not synchronised: the callbacks are registered before Run and
\* Stop are called.
CanRegister ==
  /\ exRun.pc = "idle"
  /\ exStop.pc = "idle"
  /\ Len(exCb) < MaxCallbacks

\* ValueCallback appends a value callback with a new done channel.
ValueCallback ==
  /\ CanRegister
  /\ exCb' = Append(exCb, [kind |-> "value", done |-> FALSE])
  /\ exG' = Append(exG, [pc |-> "none", n |-> 0])
  /\ UNCHANGED <<offExec, exGroup, exCtx, exRun, exStop>>

\* VoidCallback appends a void callback with a new done channel.
VoidCallback ==
  /\ CanRegister
  /\ exCb' = Append(exCb, [kind |-> "void", done |-> FALSE])
  /\ exG' = Append(exG, [pc |-> "none", n |-> 0])
  /\ UNCHANGED <<offExec, exGroup, exCtx, exRun, exStop>>

\* Run is called.
RunCall ==
  /\ exRun.pc = "idle"
  /\ exRun' = [pc |-> IF exCb = <<>> THEN "wait" ELSE "range", i |-> 1]
  /\ UNCHANGED <<offExec, exCb, exGroup, exCtx, exStop, exG>>

\* One iteration of Run's loop: e.group.Add(1); go cb.run(ctx, &e.group)
RunGo ==
  /\ exRun.pc = "range"
  /\ exGroup' = exGroup + 1
  /\ exG' = [exG EXCEPT ![exRun.i].pc = "new"]
  /\ exRun' = [pc |-> IF exRun.i = Len(exCb) THEN "wait" ELSE "range",
               i |-> exRun.i + 1]
  /\ UNCHANGED <<offExec, exCb, exCtx, exStop>>

\* e.group.Wait() returns
WaitDone_Always(g) == TRUE

WaitDone(g) == g = 0

RunReturn ==
  /\ exRun.pc = "wait"
  /\ WaitDone(exGroup)
  /\ exRun' = [exRun EXCEPT !.pc = "returned"]
  /\ UNCHANGED <<offExec, exCb, exGroup, exCtx, exStop, exG>>

\* run: the statements before the loop, time.NewTicker among them
NewTicker(i) ==
  /\ exG[i].pc = "new"
  /\ exG' = [exG EXCEPT ![i].pc = "select"]
  /\ UNCHANGED <<offExec, exCb, exGroup, exCtx, exRun, exStop>>

\* select, case <-ticker.C: the ticker has sent a tick, the select receives
\* it and the callback is invoked
CaseTick(i) ==
  /\ exG[i].pc = "select"
  /\ exG[i].n < MaxInvocations
  /\ exG' = [exG EXCEPT ![i] = [pc |-> "callback", n |-> @.n + 1]]
  /\ UNCHANGED <<offExec, exCb, exGroup, exCtx, exRun, exStop>>

\* The callback returns: a value callback's value is then written with
\* Putval.Write, a void callback's loop goes on.
CallbackReturn(i) ==
  /\ exG[i].pc = "callback"
  /\ exG' = [exG EXCEPT ![i].pc =
               IF exCb[i].kind = "value" THEN "write" ELSE "select"]
  /\ UNCHANGED <<offExec, exCb, exGroup, exCtx, exRun, exStop>>

\* Putval.Write returns; its error is dropped.
PutvalReturn(i) ==
  /\ exG[i].pc = "write"
  /\ exG' = [exG EXCEPT ![i].pc = "select"]
  /\ UNCHANGED <<offExec, exCb, exGroup, exCtx, exRun, exStop>>

\* select, case <-cb.done or case <-ctx.Done(): return, and the deferred
\* g.Done() runs
CaseDone(i) ==
  /\ exG[i].pc = "select"
  /\ exCb[i].done \/ exCtx
  /\ exG' = [exG EXCEPT ![i].pc = "exited"]
  /\ exGroup' = exGroup - 1
  /\ UNCHANGED <<offExec, exCb, exCtx, exRun, exStop>>

\* Stop is called.
StopCall ==
  /\ exStop.pc = "idle"
  /\ exStop' = [pc |-> IF exCb = <<>> THEN "returned" ELSE "range", i |-> 1]
  /\ UNCHANGED <<offExec, exCb, exGroup, exCtx, exRun, exG>>

\* One iteration of Stop's loop: cb.stop() is close(cb.done), which panics
\* when the channel is already closed.
StopClose ==
  /\ exStop.pc = "range"
  /\ IF exCb[exStop.i].done
     THEN /\ exStop' = [exStop EXCEPT !.pc = "panic"]
          /\ UNCHANGED exCb
     ELSE /\ exCb' = [exCb EXCEPT ![exStop.i].done = TRUE]
          /\ exStop' = [pc |-> IF exStop.i = Len(exCb) THEN "returned"
                               ELSE "range",
                        i |-> exStop.i + 1]
  /\ UNCHANGED <<offExec, exGroup, exCtx, exRun, exG>>

\* The context passed to Run is cancelled.
Cancel ==
  /\ ~exCtx
  /\ exCtx' = TRUE
  /\ UNCHANGED <<offExec, exCb, exGroup, exRun, exStop, exG>>

\* The steps the callback goroutine of callback i takes by itself.
Goroutine(i) ==
  \/ NewTicker(i)
  \/ CallbackReturn(i)
  \/ PutvalReturn(i)

NextExec ==
  \/ ValueCallback
  \/ VoidCallback
  \/ RunCall
  \/ RunGo
  \/ RunReturn
  \/ StopCall
  \/ StopClose
  \/ Cancel
  \/ \E i \in Registered : CaseTick(i)
  \/ \E i \in Registered : Goroutine(i)
  \/ \E i \in Registered : CaseDone(i)

SpecExec == InitExec /\ [][NextExec]_vars

\* The Go scheduler runs every goroutine that can take a step, and the
\* callbacks and Putval.Write return.  select chooses at random among the
\* cases that are ready, so a done case that is ready again and again is
\* chosen in the end.  Nothing makes the ticker fire, and nothing makes the
\* caller call Run or Stop or cancel the context.
FairExec ==
  /\ WF_vars(RunGo)
  /\ WF_vars(RunReturn)
  /\ WF_vars(StopClose)
  /\ \A i \in 1..MaxCallbacks : WF_vars(i \in Registered /\ Goroutine(i))
  /\ \A i \in 1..MaxCallbacks : SF_vars(i \in Registered /\ CaseDone(i))

FairSpecExec == SpecExec /\ FairExec

\* Stop is called again after a Stop that has returned.
StopAgain ==
  /\ exStop.pc = "returned"
  /\ exStop' = [pc |-> IF exCb = <<>> THEN "returned" ELSE "range", i |-> 1]
  /\ UNCHANGED <<offExec, exCb, exGroup, exCtx, exRun, exG>>

NextExecStops ==
  \/ NextExec
  \/ StopAgain

\* The Executor with any number of calls of Stop, one after the other.
SpecExecStops == InitExec /\ [][NextExecStops]_vars

----------------------------------------------------------------------------
(* The shadow state and the parser's state                                  *)

\* The state Parse holds when it has parsed the parts of b, starting from
\* the state st.
RECURSIVE ParserState(_, _)
ParserState(b, st) ==
  IF Len(b) < 4 THEN st
  ELSE
    LET partType == Uint16(SubSeq(b, 1, 2))
        partLength == Uint16(SubSeq(b, 3, 4))
    IN IF partLength < 5 \/ partLength - 4 > Len(b) - 4
       THEN st
       ELSE
         LET r == parsePart(partType, SubSeq(b, 5, partLength), st, <<>>)
         IN IF r.err # "nil" THEN st
            ELSE ParserState(SubSeq(b, partLength + 1, Len(b)), r.st)

\* The state st as a parser reads it once it is written: times and
\* intervals go through cdtime.
OnTheWire(st) ==
  [st EXCEPT !.Time = IF @ = ZeroTime THEN @ ELSE cdtimeTime(cdtimeNano(@)),
             !.Interval = cdtimeDuration(cdtimeNano(@))]

\* C25: after every WriteValueList or Flush call has returned, the shadow
\* state is the state a parser holds after parsing the bytes in the buffer;
\* when the buffer is empty it is the zero value.
C25_ShadowIsParserState ==
  OnTheWire(state) = ParserState(buffer, ZeroState)

----------------------------------------------------------------------------
(* Properties of Parse on one Values part                                   *)

\* C31: a Values part whose count n does not satisfy 6 + 9n = part length,
\* the product taken without wrap-around, is rejected: Parse returns an
\* error and no value list.
C31_CountMismatchRejected ==
  (puPc = "done" /\ 6 + 9 * puIn.n # 6 + puIn.len)
  => /\ puOut.err \notin {"nil", "panic"}
     /\ puOut.vls = <<>>

\* A part whose count passes the 16-bit length check only because the
\* product wrapped around was rejected.
C31_Witness ==
  /\ puPc = "done"
  /\ puIn.n \in WrapCounts
  /\ puIn.len = (puIn.n * 9) % 65536
  /\ puOut.err \notin {"nil", "length mismatch"}
  /\ puOut.vls = <<>>

\* C32: every value list Parse returns has at least one value; a Values
\* part with the count 0 emits no value list.
C32_NoEmptyValueList ==
  puPc = "done"
  => \A i \in 1..Len(puOut.vls) : Len(puOut.vls[i].Values) >= 1

----------------------------------------------------------------------------
(* Properties of cdtime                                                     *)

\* C23: a time converted to cdtime and back is the same time, to the
\* nanosecond, and a duration converted to cdtime and back is the same
\* duration.
C23_CdtimeRoundTrip ==
  puPc = "done" => puOut = [s |-> puIn.s, ns |-> puIn.ns]

----------------------------------------------------------------------------
(* Properties of the Executor                                               *)

Exited == \A i \in Registered : exG[i].pc = "exited"

\* C24: Run returns only when every callback goroutine has exited; once Run
\* has been called and Stop has been called or the context is cancelled,
\* Run returns in the end; and a Stop that has been called returns, whatever
\* Run and the callbacks do.
C24_RunAndStop ==
  /\ [](exRun.pc = "returned" => Exited)
  /\ (exRun.pc # "idle" /\ (exStop.pc # "idle" \/ exCtx))
       ~> (exRun.pc = "returned")
  /\ (exStop.pc = "range") ~> (exStop.pc = "returned")

\* Run returned after Stop stopped two callbacks that had been invoked.
C24_Witness ==
  /\ exRun.pc = "returned"
  /\ exStop.pc = "returned"
  /\ ~exCtx
  /\ Len(exCb) = MaxCallbacks
  /\ \A i \in Registered : exG[i].n > 0

\* C38: once Stop has returned or the context passed to Run has been
\* cancelled, no select of a callback goroutine takes the ticker case: no
\* callback is invoked.
C38_NoCallbackAfterStop ==
  [][(exStop.pc = "returned" \/ exCtx)
     => \A i \in Registered :
          ~(exG[i].pc = "select" /\ exG'[i].pc = "callback")]_vars

\* C39: no call of Stop, the first or a later one, before or after Run has
\* returned, panics.
C39_StopNeverPanics == exStop.pc # "panic"

====
